---- MODULE Spec2Model ----
(***************************************************************************)
(* Generator-based effect programs (Either / IO) and the drive loops that  *)
(* interpret them: run_either, the blocking run_io, the dependency         *)
(* resolving run_io and the asyncio run_io.                                *)
(*                                                                         *)
(* A program is a tree of generator functions.  A generator instance is a  *)
(* record holding the program, its position (st), the sub-iterators it is  *)
(* delegating to (sub), and the values bound so far (acc).  gen_send and   *)
(* gen_close give the generator protocol of Python (PEP 342 / 380).        *)
(***************************************************************************)
EXTENDS Integers, Sequences, FiniteSets, TLC

VARIABLES driver, tasks

vars == <<driver, tasks>>

--------------------------------------------------------------------------
(* Bounds of the model *)

MaxVal == 2

MaxBranches == 2

\* how many times main drives one program object
MaxDrives == 2

\* how many statements a state program has
MaxOps == 3

\* statements of a logging program
MaxLogs == 2

--------------------------------------------------------------------------
(* Values that travel between programs and drivers *)

None == [t |-> "None"]

IntV(n) == [t |-> "int", n |-> n]

ListV(s) == [t |-> "list", items |-> s]

TupleV(s) == [t |-> "tuple", items |-> s]

Instance(self, d) == [t |-> "instance", of |-> d, by |-> self]

Exc(name) == [t |-> "exception", name |-> name]

StopFromError(e) == [t |-> "StopFromError", error |-> e]

Sleep == [t |-> "Sleep"]

Gather(subtasks) == [t |-> "Gather", subtasks |-> subtasks]

RequestDependency(d) == [t |-> "RequestDependency", dep_type |-> d]

ExitInPlace(e) == [t |-> "ExitInPlace", error |-> e]

\* the commands of the State type
GetState(state_type) == [t |-> "GetState", state_type |-> state_type]

SetState(state) == [t |-> "SetState", state |-> state]

\* the state objects of the examples
ContainerA(value_int) == [t |-> "ContainerA", value_int |-> value_int]

ContainerB(value_str) == [t |-> "ContainerB", value_str |-> value_str]

ContainerAB(value_str, value_int) ==
  [t |-> "ContainerAB", value_str |-> value_str, value_int |-> value_int]

\* the object that main hands to run_state as initial_state: a value that is
\* this reference is that very object, whatever its content has become
TheInitialState == [t |-> "object", name |-> "initial_state"]

\* the commands of the Logging type
LogMessage(severity, message) == [t |-> "LogMessage", severity |-> severity, message |-> message]

Nop == [t |-> "Nop"]

IsStopFromError(v) == v.t = "StopFromError"

IsExitInPlace(v) == v.t = "ExitInPlace"

--------------------------------------------------------------------------
(* Programs: basis operations, delegation and combinators *)

pure(v) == [op |-> "pure", v |-> v]

halt_with_error(e) == [op |-> "halt_with_error", e |-> e]

sleep == [op |-> "sleep"]

get_dependency(d) == [op |-> "get_dependency", d |-> d]

set_state(state) == [op |-> "set_state", state |-> state]

get_state(state_type) == [op |-> "get_state", state_type |-> state_type]

\* gather of 41_io_basic_async.py / 50_io_deps.py (understands ExitInPlace)
gather(sub_tasks) == [op |-> "gather", subs |-> sub_tasks]

\* join of z0_io_basic_blocking.py (returns whatever it is resumed with)
join(sub_tasks) == [op |-> "join", subs |-> sub_tasks]

\* an entry of a list of sub-programs that is the very generator object of
\* entry i of the same list, as in "p = prog(); gather([p, p])"
SameAs(i) == [op |-> "same_as", i |-> i]

\* def middleman(): result = yield from p; return result
middleman(p) == [op |-> "middleman", ps |-> <<p>>]

\* def prog(): r1 = yield from p1; ...; rn = yield from pn; return r1, ..., rn
sequence(ps) == [op |-> "sequence", ps |-> ps]

recover_with(p, f) == [op |-> "recover_with", ps |-> <<p>>, f |-> f]

recover_with_either(p, g) == [op |-> "recover_with_either", ps |-> <<p>>, g |-> g]

\* the Either class of 32_either_with_sugar.py around a generator (@eitherable)
Either(p) == [op |-> "Either", ps |-> <<p>>]

\* the basic operations of 30_logging_basic.py: plain generators
log(severity, msg) == [op |-> "log", severity |-> severity, message |-> msg]

log_info(msg) == log("info", msg)

log_warning(msg) == log("warning", msg)

log_error(msg) == log("error", msg)

\* the Logging class of 22_logging_with_combinators.py around a generator
\* (@logable)
Logging(decorated) == [op |-> "Logging", ps |-> <<decorated>>]

Logging_info(msg) == Logging(log_info(msg))

Logging_warning(msg) == Logging(log_warning(msg))

Logging_error(msg) == Logging(log_error(msg))

_MuteLogging(decorated) == [op |-> "_MuteLogging", ps |-> <<decorated>>]

_TransformSeverity(decorated, from_severity, to_severity) ==
  [op |-> "_TransformSeverity", ps |-> <<decorated>>,
   from_severity |-> from_severity, to_severity |-> to_severity]

\* Logging.muted and Logging.errors_as_warning
muted(self) == Logging(_MuteLogging(self))

errors_as_warning(self) == Logging(_TransformSeverity(self, "error", "warning"))

--------------------------------------------------------------------------
(* Generator instances *)

IsWrapper(p) ==
  p.op \in {"recover_with", "recover_with_either", "Either",
            "Logging", "_MuteLogging", "_TransformSeverity"}

RECURSIVE NewGen(_)
NewGen(p) ==
  [p |-> p,
   st |-> IF IsWrapper(p) THEN "object" ELSE "new",
   sub |-> IF IsWrapper(p) THEN <<NewGen(p.ps[1])>> ELSE <<>>,
   acc |-> <<>>]

Yield(g, v) == [g |-> g, k |-> "yield", v |-> v]

\* a return that loses its value: StopIteration without a value
Return_without_value(g, v) == [g |-> g, k |-> "return", v |-> None]

Return(g, v) == [g |-> g, k |-> "return", v |-> v]

\* a body that ends where the raise stands: the generator returns None
Raise_returning_none(g, name) == [g |-> g, k |-> "return", v |-> None]

Raise(g, name) == [g |-> g, k |-> "raise", v |-> Exc(name)]

At(g, st) == [g EXCEPT !.st = st]

\* the iterator a generator suspended in "yield from" is delegating to
Delegate(g) == g.sub[Len(g.sub)]

WithDelegate(g, d) == [g EXCEPT !.sub = <<d>>, !.st = "yield_from"]

RECURSIVE gen_send(_, _)
RECURSIVE yield_from(_, _)
RECURSIVE _RecoverWith_send(_, _)
RECURSIVE _RecoverWithEither_send(_, _)
RECURSIVE Either_send(_, _)

\* r is the outcome of resuming the delegate of g: the frame of g forwards a
\* yield verbatim, propagates an exception, and continues its own body with
\* the delegate's return value.
yield_from(g, r) ==
  IF r.k = "yield" THEN Yield(WithDelegate(g, r.g), r.v)
  ELSE IF r.k = "raise" THEN [g |-> At(WithDelegate(g, r.g), "done"), k |-> "raise", v |-> r.v]
  ELSE
    CASE g.p.op = "middleman" ->
           Return(At(WithDelegate(g, r.g), "done"), r.v)
      [] g.p.op = "sequence" ->
           LET acc == Append(g.acc, r.v)
               g1  == [g EXCEPT !.acc = acc]
           IN IF Len(acc) = Len(g.p.ps)
                THEN Return(At(WithDelegate(g1, r.g), "done"), TupleV(acc))
                ELSE LET d == NewGen(g.p.ps[Len(acc) + 1])
                     IN yield_from(g1, gen_send(d, None))
      [] g.p.op = "gather" ->
           \* yield from halt_with_error(r.error) returned: bare raise
           Raise(At(WithDelegate(g, r.g), "done"), "RuntimeError")

\* a wrapper that resumes the decorated program with None whatever it is sent
_RecoverWith_send_dropping_reply(g, value) ==
  LET r == gen_send(g.sub[1], None)
      g1 == [g EXCEPT !.sub = <<r.g>>]
  IN IF r.k = "yield" /\ IsStopFromError(r.v)
       THEN Return(g1, g.p.f[r.v.error])
       ELSE [g |-> g1, k |-> r.k, v |-> r.v]

\* a wrapper that puts a recovery value in place of the value the decorated
\* program completes with
_RecoverWith_send_recovering_completion(g, value) ==
  LET r == gen_send(g.sub[1], value)
      g1 == [g EXCEPT !.sub = <<r.g>>]
  IN IF r.k = "yield" /\ IsStopFromError(r.v)
       THEN Return(g1, g.p.f[r.v.error])
       ELSE IF r.k = "return" THEN Return(g1, g.p.f["e1"])
       ELSE [g |-> g1, k |-> r.k, v |-> r.v]

\* a wrapper that returns the StopFromError itself, recover not applied
_RecoverWith_send_returning_error(g, value) ==
  LET r == gen_send(g.sub[1], value)
      g1 == [g EXCEPT !.sub = <<r.g>>]
  IN IF r.k = "yield" /\ IsStopFromError(r.v)
       THEN Return(g1, r.v)
       ELSE [g |-> g1, k |-> r.k, v |-> r.v]

\* a wrapper that forwards StopFromError like every other command
_RecoverWith_send_forwarding_halt(g, value) ==
  LET r == gen_send(g.sub[1], value)
  IN [g |-> [g EXCEPT !.sub = <<r.g>>], k |-> r.k, v |-> r.v]

_RecoverWith_send(g, value) ==
  LET r == gen_send(g.sub[1], value)
      g1 == [g EXCEPT !.sub = <<r.g>>]
  IN IF r.k = "yield" /\ IsStopFromError(r.v)
       THEN Return(g1, g.p.f[r.v.error])
       ELSE [g |-> g1, k |-> r.k, v |-> r.v]

\* a wrapper that creates the recovery program but still hands the
\* StopFromError of the decorated program to the driver
_RecoverWithEither_send_showing_halt(g, value) ==
  IF Len(g.sub) = 2
    THEN LET r == gen_send(g.sub[2], value)
         IN [g |-> [g EXCEPT !.sub = <<g.sub[1], r.g>>], k |-> r.k, v |-> r.v]
    ELSE LET r == gen_send(g.sub[1], value)
         IN IF r.k = "yield" /\ IsStopFromError(r.v)
              THEN [g |-> [g EXCEPT !.sub = <<r.g, NewGen(g.p.g[r.v.error])>>],
                    k |-> r.k, v |-> r.v]
              ELSE [g |-> [g EXCEPT !.sub = <<r.g>>], k |-> r.k, v |-> r.v]

\* a wrapper that applies recover once more to a StopFromError of the recovery
\* program
_RecoverWithEither_send_recovering_again(g, value) ==
  LET r == IF Len(g.sub) = 2 THEN gen_send(g.sub[2], value) ELSE gen_send(g.sub[1], value)
      r2 == IF r.k = "yield" /\ IsStopFromError(r.v)
              THEN gen_send(NewGen(g.p.g[r.v.error]), None) ELSE r
      r3 == IF Len(g.sub) = 1 /\ r2.k = "yield" /\ IsStopFromError(r2.v)
              THEN gen_send(NewGen(g.p.g[r2.v.error]), None) ELSE r2
  IN IF Len(g.sub) = 2 \/ (r.k = "yield" /\ IsStopFromError(r.v))
       THEN [g |-> [g EXCEPT !.sub = <<g.sub[1], r3.g>>], k |-> r3.k, v |-> r3.v]
       ELSE [g |-> [g EXCEPT !.sub = <<r.g>>], k |-> r.k, v |-> r.v]

\* a wrapper that keeps resuming the decorated program after the switch and
\* applies recover to every StopFromError it yields
_RecoverWithEither_send_resuming_original(g, value) ==
  LET r == gen_send(g.sub[1], value)
  IN IF r.k = "yield" /\ IsStopFromError(r.v)
       THEN LET r2 == gen_send(NewGen(g.p.g[r.v.error]), None)
            IN [g |-> [g EXCEPT !.sub = <<r.g, r2.g>>], k |-> r2.k, v |-> r2.v]
       ELSE [g |-> [g EXCEPT !.sub = <<r.g>> \o SubSeq(g.sub, 2, Len(g.sub))], k |-> r.k, v |-> r.v]

_RecoverWithEither_send(g, value) ==
  IF Len(g.sub) = 2
    THEN LET r == gen_send(g.sub[2], value)
         IN [g |-> [g EXCEPT !.sub = <<g.sub[1], r.g>>], k |-> r.k, v |-> r.v]
    ELSE LET r == gen_send(g.sub[1], value)
         IN IF r.k = "yield" /\ IsStopFromError(r.v)
              THEN LET r2 == gen_send(NewGen(g.p.g[r.v.error]), None)
                   IN [g |-> [g EXCEPT !.sub = <<r.g, r2.g>>], k |-> r2.k, v |-> r2.v]
              ELSE [g |-> [g EXCEPT !.sub = <<r.g>>], k |-> r.k, v |-> r.v]

Either_send(g, value) ==
  LET r == gen_send(g.sub[1], value)
  IN [g |-> [g EXCEPT !.sub = <<r.g>>], k |-> r.k, v |-> r.v]

\* Logging.send: self.decorated.send(value)
Logging_send(g, value) ==
  LET r == gen_send(g.sub[1], value)
  IN [g |-> [g EXCEPT !.sub = <<r.g>>], k |-> r.k, v |-> r.v]

\* a combinator that hands every command of the decorated program on
_MuteLogging_send_forwarding(g, value) ==
  LET r == gen_send(g.sub[1], value)
  IN [g |-> [g EXCEPT !.sub = <<r.g>>], k |-> r.k, v |-> r.v]

\* a combinator that yields nothing for a LogMessage: it resumes the
\* decorated program until it yields something else or ends
RECURSIVE _MuteLogging_send_swallowing(_, _)
_MuteLogging_send_swallowing(g, value) ==
  LET r == gen_send(g.sub[1], value)
      g1 == [g EXCEPT !.sub = <<r.g>>]
  IN IF r.k = "yield" /\ r.v.t = "LogMessage"
       THEN _MuteLogging_send_swallowing(g1, None)
       ELSE [g |-> g1, k |-> r.k, v |-> r.v]

_MuteLogging_send(g, value) ==
  LET r == gen_send(g.sub[1], value)
      g1 == [g EXCEPT !.sub = <<r.g>>]
  IN IF r.k = "yield" /\ r.v.t = "LogMessage"
       THEN Yield(g1, Nop)
       ELSE [g |-> g1, k |-> r.k, v |-> r.v]

\* a combinator that gives every LogMessage the severity to_severity
_TransformSeverity_send_every_log(g, value) ==
  LET r == gen_send(g.sub[1], value)
      g1 == [g EXCEPT !.sub = <<r.g>>]
  IN IF r.k = "yield" /\ r.v.t = "LogMessage"
       THEN Yield(g1, LogMessage(g.p.to_severity, r.v.message))
       ELSE [g |-> g1, k |-> r.k, v |-> r.v]

_TransformSeverity_send(g, value) ==
  LET r == gen_send(g.sub[1], value)
      g1 == [g EXCEPT !.sub = <<r.g>>]
  IN IF r.k = "yield" /\ r.v.t = "LogMessage" /\ r.v.severity = g.p.from_severity
       THEN Yield(g1, LogMessage(g.p.to_severity, r.v.message))
       ELSE [g |-> g1, k |-> r.k, v |-> r.v]

\* delegation written as "for x in sub: yield x": the reply is lost
resume_delegate_dropping_reply(g, value) == yield_from(g, gen_send(Delegate(g), None))

\* a generator suspended in "yield from" hands the value it is resumed with to
\* its delegate
resume_delegate(g, value) == yield_from(g, gen_send(Delegate(g), value))

gen_send(g, value) ==
  CASE g.p.op = "recover_with" -> _RecoverWith_send(g, value)
    [] g.p.op = "recover_with_either" -> _RecoverWithEither_send(g, value)
    [] g.p.op = "Either" -> Either_send(g, value)
    [] g.p.op = "Logging" -> Logging_send(g, value)
    [] g.p.op = "_MuteLogging" -> _MuteLogging_send(g, value)
    [] g.p.op = "_TransformSeverity" -> _TransformSeverity_send(g, value)
    [] OTHER ->
      IF g.st \in {"done", "closed"} THEN Return(g, None)   \* bare StopIteration
      ELSE IF g.st = "yield_from" THEN resume_delegate(g, value)
      ELSE
        CASE g.p.op = "pure" -> Return(At(g, "done"), g.p.v)
          [] g.p.op = "halt_with_error" ->
               IF g.st = "new" THEN Yield(At(g, "yield"), StopFromError(g.p.e))
               ELSE Raise(At(g, "done"), "RuntimeError")
          [] g.p.op = "sleep" ->
               IF g.st = "new" THEN Yield(At(g, "yield"), Sleep)
               ELSE Return(At(g, "done"), None)
          [] g.p.op = "get_dependency" ->
               IF g.st = "new" THEN Yield(At(g, "yield"), RequestDependency(g.p.d))
               ELSE IF IsExitInPlace(value) THEN Raise(At(g, "done"), "AssertionError")
               ELSE Return(At(g, "done"), value)
          [] g.p.op = "log" ->
               IF g.st = "new" THEN Yield(At(g, "yield"), LogMessage(g.p.severity, g.p.message))
               ELSE Return(At(g, "done"), None)
          [] g.p.op = "set_state" ->
               IF g.st = "new" THEN Yield(At(g, "yield"), SetState(g.p.state))
               ELSE Return(At(g, "done"), None)
          [] g.p.op = "get_state" ->
               IF g.st = "new" THEN Yield(At(g, "yield"), GetState(g.p.state_type))
               ELSE IF value = None THEN Raise(At(g, "done"), "AssertionError")
               ELSE Return(At(g, "done"), value)
          [] g.p.op = "join" ->
               IF g.st = "new" THEN Yield(At(g, "yield"), Gather(g.p.subs))
               ELSE Return(At(g, "done"), value)
          [] g.p.op = "gather" ->
               IF g.st = "new" THEN Yield(At(g, "yield"), Gather(g.p.subs))
               ELSE IF IsExitInPlace(value)
                 THEN yield_from(g, gen_send(NewGen(halt_with_error(value.error)), None))
               ELSE Return(At(g, "done"), value)
          [] g.p.op \in {"middleman", "sequence"} ->
               yield_from(g, gen_send(NewGen(g.p.ps[1]), None))

RECURSIVE gen_close(_)

\* a close that goes to the program the wrapper is now resuming: the
\* recovery program once there is one
_RecoverWithEither_close_current(g) ==
  [g EXCEPT !.sub = SubSeq(g.sub, 1, Len(g.sub) - 1) \o <<gen_close(g.sub[Len(g.sub)])>>]

\* _RecoverWithEither.close: self.decorated.close(); decorated_recover, if
\* there is one, is left as it is
_RecoverWithEither_close(g) ==
  [g EXCEPT !.sub = <<gen_close(g.sub[1])>> \o SubSeq(g.sub, 2, Len(g.sub))]

gen_close(g) ==
  CASE g.p.op \in {"recover_with", "Either", "Logging", "_MuteLogging", "_TransformSeverity"} ->
         [g EXCEPT !.sub = <<gen_close(g.sub[1])>>]
    [] g.p.op = "recover_with_either" -> _RecoverWithEither_close(g)
    [] OTHER ->
         IF g.st = "done" THEN g
         ELSE IF g.st = "yield_from" THEN At([g EXCEPT !.sub = <<gen_close(Delegate(g))>>], "closed")
         ELSE At(g, "closed")

RECURSIVE gen_throw(_, _)

\* _RecoverWithEither.throw: self.decorated.throw(typ, val, tb)
_RecoverWithEither_throw(g, typ) ==
  LET r == gen_throw(g.sub[1], typ)
  IN [g |-> [g EXCEPT !.sub = <<r.g>> \o SubSeq(g.sub, 2, Len(g.sub))], k |-> r.k, v |-> r.v]

\* g.throw(typ): the wrappers hand it to their decorated program; a
\* generator (none of them catches anything) hands it to the iterator it
\* delegates to, if any, and ends with the exception
gen_throw(g, typ) ==
  CASE g.p.op \in {"recover_with", "Either", "Logging", "_MuteLogging", "_TransformSeverity"} ->
         LET r == gen_throw(g.sub[1], typ)
         IN [g |-> [g EXCEPT !.sub = <<r.g>>], k |-> r.k, v |-> r.v]
    [] g.p.op = "recover_with_either" -> _RecoverWithEither_throw(g, typ)
    [] OTHER ->
         IF g.st = "yield_from"
           THEN Raise(At([g EXCEPT !.sub = <<gen_throw(Delegate(g), typ).g>>], "done"), typ)
           ELSE Raise(At(g, "done"), typ)

--------------------------------------------------------------------------
(* Inputs: errors, recovery functions, dependency keys, programs *)

Vals == {IntV(n) : n \in 1..MaxVal}

Errors == {"e1", "e2"}

\* lambda _: "oops" (30_either_basic.py:143) and the error-dependent lambda of
\* 41_io_basic_async.py:223
RecoverFns ==
  { [e \in Errors |-> IntV(-1)],
    [e \in Errors |-> IF e = "e1" THEN IntV(-1) ELSE IntV(-2)] }

\* recovers from "e1" only and halts again with every other error
_recover_from_internal_error_only ==
  [e \in Errors |-> IF e = "e1" THEN pure(IntV(0)) ELSE middleman(halt_with_error(e))]

\* a recovery that halts with another error than the one it is given
_recover_halting_with_other ==
  [e \in Errors |-> IF e = "e1" THEN halt_with_error("e2") ELSE pure(IntV(0))]

RecoverEithers == {_recover_from_internal_error_only, _recover_halting_with_other}

DepTypes == {"Logger", "StateDao", "SomeAdditionalDep"}

\* two objects of class DependencyResolverImpl, each with a Logger and a
\* StateDao of its own
Resolvers == {"impl1", "impl2"}

\* what main hands to the driver d as dep_resolver
ResolversOf(d) == IF d = "run_io_deps" THEN Resolvers ELSE {"none"}

Drivers == {"run_either", "run_io_blocking", "run_io_deps", "run_io_async"}

HasSleep(d) == d \in {"run_io_deps", "run_io_async"}

EitherAtoms == {pure(v) : v \in Vals} \cup {halt_with_error(e) : e \in Errors}

EitherBodies ==
  EitherAtoms
    \cup {middleman(a) : a \in EitherAtoms}
    \cup {middleman(middleman(a)) : a \in EitherAtoms}
    \cup {sequence(<<a, middleman(b)>>) : a \in EitherAtoms, b \in EitherAtoms}

EitherPrograms ==
  EitherBodies
    \cup {recover_with(p, f) : p \in EitherBodies, f \in RecoverFns}
    \cup {recover_with_either(p, g) : p \in EitherBodies, g \in RecoverEithers}
    \cup {middleman(recover_with(a, f)) : a \in EitherAtoms, f \in RecoverFns}
    \cup {sequence(<<recover_with_either(a, g), b>>) :
            a \in EitherAtoms, b \in EitherAtoms, g \in RecoverEithers}

\* the same programs written with the Either class (32_either_with_sugar.py)
Sugared(g) == [e \in Errors |-> Either(g[e])]

SugarAtoms == {Either(a) : a \in EitherAtoms}

SugarPrograms ==
  SugarAtoms
    \cup {Either(middleman(a)) : a \in SugarAtoms}
    \cup {Either(recover_with(p, f)) :
            p \in SugarAtoms \cup {Either(middleman(a)) : a \in SugarAtoms}, f \in RecoverFns}
    \cup {Either(recover_with_either(p, Sugared(g))) :
            p \in SugarAtoms \cup {Either(sequence(<<a, Either(middleman(b))>>)) :
                                      a \in SugarAtoms, b \in SugarAtoms},
            g \in RecoverEithers}

Atoms(d) ==
  EitherAtoms
    \cup (IF HasSleep(d) THEN {sleep} ELSE {})
    \cup (IF d = "run_io_deps" THEN {get_dependency(k) : k \in DepTypes} ELSE {})

Branches(d) ==
  Atoms(d)
    \cup (IF HasSleep(d) THEN {sequence(<<sleep, a>>) : a \in EitherAtoms} ELSE {})
    \cup {middleman(a) : a \in Atoms(d) \ ({sleep} \cup {pure(v) : v \in Vals})}
    \cup {recover_with(halt_with_error(e), [x \in Errors |-> IF x = "e1" THEN IntV(-1) ELSE IntV(-2)]) :
            e \in Errors}

GatherOf(d, subs) == IF d = "run_io_blocking" THEN join(subs) ELSE gather(subs)

BranchLists(d) == UNION {[1..n -> Branches(d)] : n \in 0..MaxBranches}

Gathers(d) == {GatherOf(d, subs) : subs \in BranchLists(d)}

IOPrograms(d) ==
  Branches(d)
    \cup Gathers(d)
    \cup {middleman(p) : p \in Gathers(d)}
    \cup {recover_with(p, f) : p \in Gathers(d), f \in RecoverFns}
    \cup {middleman(middleman(a)) : a \in Atoms(d)}
    \cup {sequence(<<a, middleman(middleman(b))>>) : a \in Atoms(d), b \in Atoms(d)}
    \cup {recover_with(sequence(<<a, b>>), f) : a \in Atoms(d), b \in Atoms(d), f \in RecoverFns}

Programs(d) ==
  IF d = "run_either" THEN EitherPrograms \cup SugarPrograms ELSE IOPrograms(d)

--------------------------------------------------------------------------
(* Drive loops.  A task is one invocation of run_io / run_either. *)

\* a driver that makes a resolver of its own for every sub-run
NewTask_with_new_resolver(p, parent) ==
  [gen |-> NewGen(p), exp |-> 0, parent |-> parent, pc |-> "run", next_send |-> None,
   dep_resolver |-> IF parent = 0 THEN "none" ELSE "impl1",
   result |-> None, kids |-> <<>>, trace |-> <<>>, sent |-> <<>>, finished_at |-> 0]

\* run_io(exp, dep_resolver) is called: by main (parent = 0, the resolver is
\* put in by Init) or for a branch, with the resolver of the parent
NewTask(p, parent) ==
  [gen |-> NewGen(p), exp |-> 0, parent |-> parent, pc |-> "run", next_send |-> None,
   dep_resolver |-> IF parent = 0 THEN "none" ELSE tasks[parent].dep_resolver,
   result |-> None, kids |-> <<>>, trace |-> <<>>, sent |-> <<>>, finished_at |-> 0]

\* a resolver that reports a key it does not know through the error channel
resolve_dependendcy_halting(self, d) ==
  IF d \in {"Logger", "StateDao"}
    THEN [k |-> "value", v |-> Instance(self, d)]
    ELSE [k |-> "value", v |-> StopFromError("e1")]

\* DependencyResolverImpl.resolve_dependendcy
resolve_dependendcy(self, d) ==
  IF d \in {"Logger", "StateDao"}
    THEN [k |-> "value", v |-> Instance(self, d)]
    ELSE [k |-> "raise", v |-> Exc("AssertionError")]

\* a driver without a case for StopFromError: the halt is answered with None
run_single_command_without_halt(d, command, dep_resolver) ==
  CASE command.t = "Sleep" /\ d = "run_io_async" -> [k |-> "sleep"]
    [] command.t = "Gather" /\ d # "run_either" -> [k |-> "gather"]
    [] command.t = "RequestDependency" /\ d = "run_io_deps" ->
         resolve_dependendcy(dep_resolver, command.dep_type)
    [] OTHER -> [k |-> "value", v |-> None]

\* what the driver d does with one command
run_single_command(d, command, dep_resolver) ==
  CASE IsStopFromError(command) -> [k |-> "value", v |-> command]
    [] command.t = "Sleep" /\ d = "run_io_async" -> [k |-> "sleep"]
    [] command.t = "Gather" /\ d # "run_either" -> [k |-> "gather"]
    [] command.t = "RequestDependency" /\ d = "run_io_deps" ->
         resolve_dependendcy(dep_resolver, command.dep_type)
    [] OTHER -> [k |-> "value", v |-> None]

\* a driver that starts run_io(st) of every branch at once
Scheduled_all_at_once(t) == TRUE

\* a driver that awaits run_io(st) of one branch before it starts the next
Scheduled_one_at_a_time(t) ==
  IF tasks[t].parent = 0 THEN TRUE
  ELSE /\ tasks[tasks[t].parent].pc = "gather"
       /\ \A s \in 1..(t - 1) : tasks[s].parent = tasks[t].parent => tasks[s].pc = "done"

\* a driver that stops resuming a branch once a sibling of it has halted,
\* and still waits for all branches
Scheduled_until_a_sibling_halts(t) ==
  IF tasks[t].parent = 0 THEN TRUE
  ELSE /\ driver = "run_io_async" \/
          /\ tasks[tasks[t].parent].pc = "gather"
          /\ \A s \in 1..(t - 1) : tasks[s].parent = tasks[t].parent => tasks[s].pc = "done"
       /\ \A s \in DOMAIN tasks :
            tasks[s].parent = tasks[t].parent => ~IsStopFromError(tasks[s].result)

\* the branches of a synchronous Gather run one after another, each one only
\* while the list comprehension of its parent is still being evaluated
Scheduled(t) ==
  IF driver = "run_io_async" \/ tasks[t].parent = 0 THEN TRUE
  ELSE /\ tasks[tasks[t].parent].pc = "gather"
       /\ \A s \in 1..(t - 1) : tasks[s].parent = tasks[t].parent => tasks[s].pc = "done"

\* the loop of task t is about to resume its program (every send has an
\* outcome, so that nothing else is needed for the loop to take its step)
Runnable(t) == tasks[t].pc = "run" /\ Scheduled(t)

\* run_io returns or raises: the task is over (finished_at records the order
\* in which the tasks ended)
Finish(T, pc, result) ==
  [T EXCEPT !.pc = pc, !.result = result,
            !.finished_at = 1 + Cardinality({s \in DOMAIN tasks : tasks[s].finished_at > 0})]

\* a loop that feeds StopFromError back like every other step result
Continue_after_halt(T, step_result) ==
  [T EXCEPT !.pc = "run",
            !.next_send = IF driver = "run_either" THEN None ELSE step_result]

\* a loop that forgets the step result and resumes with None every time
Continue_sending_nothing(T, step_result) ==
  IF IsStopFromError(step_result)
    THEN Finish([T EXCEPT !.gen = gen_close(@)], "done", step_result)
    ELSE [T EXCEPT !.pc = "run", !.next_send = None]

\* a next_send that the loop of a branch shares with the loop of its parent
Continue_with_next_send_of_parent(T, step_result) ==
  IF IsStopFromError(step_result)
    THEN Finish([T EXCEPT !.gen = gen_close(@)], "done", step_result)
    ELSE [T EXCEPT !.pc = "run",
                   !.next_send = IF T.parent = 0 THEN step_result
                                 ELSE tasks[T.parent].next_send]

\* step_result has been computed: the tail of the loop body of run_io
Continue(T, step_result) ==
  IF IsStopFromError(step_result)
    THEN Finish([T EXCEPT !.gen = gen_close(@)], "done", step_result)
    ELSE [T EXCEPT !.pc = "run",
                   !.next_send = IF driver = "run_either" THEN None ELSE step_result]

\* the task whose record holds the generator object that run_io(t) was given
\* as exp: t itself unless the object was handed to an earlier run_io too
Owner(t) == IF tasks[t].exp = 0 THEN t ELSE tasks[t].exp

\* the task of run_io(t) with the present state of its generator object
Load(t) == [tasks[t] EXCEPT !.gen = tasks[Owner(t)].gen]

\* the task of run_io(t) has become T: the generator object changes for every
\* loop that holds it
Store(t, T) ==
  [s \in DOMAIN tasks |->
     IF s = t THEN T
     ELSE IF s = Owner(t) THEN [tasks[s] EXCEPT !.gen = T.gen]
     ELSE tasks[s]]

\* run_io(st) of entry i of sub_commands, the (n + i)-th task
SubTask(sub_commands, i, parent, n) ==
  IF sub_commands[i].op = "same_as"
    THEN [NewTask(sub_commands[sub_commands[i].i], parent) EXCEPT !.exp = n + sub_commands[i].i]
    ELSE NewTask(sub_commands[i], parent)

\* one iteration of the while loop: exp.send(next_send), run_single_command
run_io(t) ==
  /\ Runnable(t)
  /\ LET T  == Load(t)
         r  == gen_send(T.gen, T.next_send)
         T1 == [T EXCEPT !.gen = r.g, !.sent = Append(@, T.next_send)]
         T2 == [T1 EXCEPT !.trace = Append(@, r.v)]
         c  == run_single_command(driver, r.v, T.dep_resolver)
         n  == Len(tasks)
     IN CASE r.k = "return" ->
               tasks' = Store(t, Finish(T1, "done", r.v))
          [] r.k = "raise" ->
               tasks' = Store(t, Finish(T1, "raised", r.v))
          [] r.k = "yield" /\ c.k = "value" ->
               tasks' = Store(t, Continue(T2, c.v))
          [] r.k = "yield" /\ c.k = "raise" ->
               tasks' = Store(t, Finish(T2, "raised", c.v))
          [] r.k = "yield" /\ c.k = "sleep" ->
               tasks' = Store(t, [T2 EXCEPT !.pc = "sleeping"])
          [] r.k = "yield" /\ c.k = "gather" ->
               tasks' = Store(t, [T2 EXCEPT !.pc = "gather",
                                            !.kids = [i \in 1..Len(r.v.subtasks) |-> n + i]])
                        \o [i \in 1..Len(r.v.subtasks) |-> SubTask(r.v.subtasks, i, t, n)]
  /\ UNCHANGED driver

\* await asyncio.sleep(delay) returns
sleep_done(t) ==
  /\ tasks[t].pc = "sleeping"
  /\ tasks' = [tasks EXCEPT ![t] = Continue(@, None)]
  /\ UNCHANGED driver

\* a scan of the results that keeps the last StopFromError it meets
RECURSIVE FirstError_keeping_last(_)
FirstError_keeping_last(sub_results) ==
  IF sub_results = <<>> THEN <<>>
  ELSE IF FirstError_keeping_last(Tail(sub_results)) # <<>>
    THEN FirstError_keeping_last(Tail(sub_results))
  ELSE IF IsStopFromError(Head(sub_results)) THEN <<Head(sub_results)>>
  ELSE <<>>

RECURSIVE FirstError(_)
FirstError(sub_results) ==
  IF sub_results = <<>> THEN <<>>
  ELSE IF IsStopFromError(Head(sub_results)) THEN <<Head(sub_results)>>
  ELSE FirstError(Tail(sub_results))

\* a Gather that never looks for a StopFromError among the results
gather_results_ignoring_errors(d, results) == ListV(results)

\* the Gather case of run_single_command once every run_io(st) has returned
gather_results(d, results) ==
  LET err == FirstError(results)
  IN IF err = <<>> THEN ListV(results)
     ELSE IF d = "run_io_blocking" THEN err[1]
     ELSE ExitInPlace(err[1].error)

\* the results in the order in which the branches ended
sub_results_as_completed(t) ==
  LET kids == tasks[t].kids
      Rank(i) == Cardinality({j \in 1..Len(kids) :
                    tasks[kids[j]].finished_at <= tasks[kids[i]].finished_at})
  IN [n \in 1..Len(kids) |->
        tasks[kids[CHOOSE i \in 1..Len(kids) : Rank(i) = n]].result]

\* [run_io(st) for st in sub_commands] / asyncio.gather(*[run_io(st) ...]):
\* the results in the order of the sub-programs
sub_results(t) == [i \in 1..Len(tasks[t].kids) |-> tasks[tasks[t].kids[i]].result]

\* a join that reports the first halt it sees without waiting for the
\* other branches
gather_done_at_first_halt(t) ==
  /\ tasks[t].pc = "gather"
  /\ \/ \A i \in 1..Len(tasks[t].kids) : tasks[tasks[t].kids[i]].pc = "done"
     \/ \E i \in 1..Len(tasks[t].kids) :
          tasks[tasks[t].kids[i]].pc = "done" /\ IsStopFromError(tasks[tasks[t].kids[i]].result)
  /\ tasks' = [tasks EXCEPT ![t] = Continue(@, gather_results(driver, sub_results(t)))]
  /\ UNCHANGED driver

gather_done(t) ==
  /\ tasks[t].pc = "gather"
  /\ \A i \in 1..Len(tasks[t].kids) : tasks[tasks[t].kids[i]].pc = "done"
  /\ tasks' = [tasks EXCEPT ![t] = Continue(@, gather_results(driver, sub_results(t)))]
  /\ UNCHANGED driver

\* an exception of a branch leaves run_single_command and run_io of the parent
gather_raised(t) ==
  /\ tasks[t].pc = "gather"
  /\ \E i \in 1..Len(tasks[t].kids) :
       /\ tasks[tasks[t].kids[i]].pc = "raised"
       /\ tasks' = [tasks EXCEPT ![t] = Finish(@, "raised", tasks[tasks[t].kids[i]].result)]
  /\ UNCHANGED driver

\* main calls the driver with program p and resolver r
Main(p, r) == [NewTask(p, 0) EXCEPT !.dep_resolver = r]

Init ==
  /\ driver \in Drivers
  /\ \E p \in Programs(driver), r \in ResolversOf(driver) : tasks = <<Main(p, r)>>

Next ==
  \/ \E t \in DOMAIN tasks : run_io(t)
  \/ \E t \in DOMAIN tasks : sleep_done(t)
  \/ \E t \in DOMAIN tasks : gather_done(t)
  \/ \E t \in DOMAIN tasks : gather_raised(t)

Spec == Init /\ [][Next]_vars

\* lists of sub-programs in which one generator object occurs more than once
SharedLists(d) ==
  {subs \in UNION {[1..n -> Branches(d) \cup {SameAs(1)}] : n \in 2..MaxBranches} :
     /\ subs[1] # SameAs(1)
     /\ \E i \in 2..Len(subs) : subs[i] = SameAs(1)}

InitShared ==
  /\ driver \in {"run_io_deps", "run_io_async"}
  /\ \E subs \in SharedLists(driver), r \in ResolversOf(driver) :
       tasks = <<Main(gather(subs), r)>>

SpecShared == InitShared /\ [][Next]_vars

\* the branches of the gathers below: a value, a halt, a sleep before each of
\* them, a dependency the resolver has and one it has not
LeafBranches(d) ==
  {pure(IntV(1)), halt_with_error("e1")}
    \cup (IF HasSleep(d) THEN {sequence(<<sleep, pure(IntV(1))>>), sequence(<<sleep, halt_with_error("e2")>>)}
          ELSE {})
    \cup (IF d = "run_io_deps" THEN {get_dependency("Logger"), get_dependency("SomeAdditionalDep")}
          ELSE {})

InnerGathers(d) ==
  {GatherOf(d, subs) : subs \in UNION {[1..n -> LeafBranches(d)] : n \in 1..MaxBranches}}

\* gathers that have a gather, bare or inside recover_with, as a branch,
\* themselves bare or inside recover_with
NestedGathers(d) ==
  LET f      == [e \in Errors |-> IntV(-1)]
      inner  == InnerGathers(d) \cup {recover_with(g, f) : g \in InnerGathers(d)}
      nested == {GatherOf(d, <<g, b>>) : g \in inner, b \in LeafBranches(d)}
  IN nested \cup {recover_with(g, f) : g \in nested}

ProgramsNested(d) ==
  IF d = "run_either" THEN EitherPrograms \cup SugarPrograms ELSE NestedGathers(d)

InitNested ==
  /\ driver \in Drivers
  /\ \E p \in ProgramsNested(driver), r \in ResolversOf(driver) : tasks = <<Main(p, r)>>

\* the interpreter, and the event loop of asyncio, take the next step as long
\* as there is one to take
SpecNested == InitNested /\ [][Next]_vars /\ WF_vars(Next)

--------------------------------------------------------------------------
(* main drives the same program object once more: p = prog(); run(p); run(p) *)

\* the drives main has started
Drives == {t \in DOMAIN tasks : tasks[t].parent = 0}

\* the driver has returned to main, and main calls it again with the object
\* it has just driven
run_again ==
  /\ Cardinality(Drives) < MaxDrives
  /\ \A t \in Drives : tasks[t].pc = "done"
  /\ tasks' = Append(tasks, [Main(tasks[1].gen.p, tasks[1].dep_resolver) EXCEPT !.exp = 1])
  /\ UNCHANGED driver

\* programs with at most one branch in a gather
ProgramsAgain(d) ==
  IF d = "run_either" THEN EitherPrograms \cup SugarPrograms
  ELSE Branches(d)
         \cup {GatherOf(d, <<b>>) : b \in Branches(d)}
         \cup {recover_with(GatherOf(d, <<b>>), f) : b \in Branches(d), f \in RecoverFns}
         \cup {middleman(middleman(a)) : a \in Atoms(d)}
         \cup {recover_with(sequence(<<a, b>>), f) : a \in Atoms(d), b \in Atoms(d), f \in RecoverFns}

InitAgain ==
  /\ driver \in Drivers
  /\ \E p \in ProgramsAgain(driver), r \in ResolversOf(driver) : tasks = <<Main(p, r)>>

NextAgain ==
  \/ \E t \in DOMAIN tasks : run_io(t)
  \/ \E t \in DOMAIN tasks : sleep_done(t)
  \/ \E t \in DOMAIN tasks : gather_done(t)
  \/ \E t \in DOMAIN tasks : gather_raised(t)
  \/ run_again

SpecAgain == InitAgain /\ [][NextAgain]_vars

--------------------------------------------------------------------------
(* The state drivers: run_state of 70_state.py replaces the cell, run_state
   of 71_state_fixed.py updates the object it was given *)

StateDrivers == {"run_state", "run_state_fixed"}

StateTypes == {"ContainerA", "ContainerB", "ContainerAB"}

\* class ContainerAB(ContainerA, ContainerB)
isinstance(o, cls) ==
  o.t = cls \/ (o.t = "ContainerAB" /\ cls \in {"ContainerA", "ContainerB"})

ContainerA_update(self, other) ==
  IF isinstance(other, "ContainerA") THEN [self EXCEPT !.value_int = other.value_int] ELSE self

ContainerB_update(self, other) ==
  IF isinstance(other, "ContainerB") THEN [self EXCEPT !.value_str = other.value_str] ELSE self

\* a ContainerAB without an update of its own: the method resolution order
\* finds ContainerA.update
ContainerAB_update_inherited(self, other) == ContainerA_update(self, other)

\* an update that fills a new ContainerAB("no", 0) from other instead of self
ContainerAB_update_from_scratch(self, other) ==
  LET s0 == [self EXCEPT !.value_str = "no", !.value_int = 0]
      s1 == IF isinstance(other, "ContainerA") THEN ContainerA_update(s0, other) ELSE s0
  IN IF isinstance(other, "ContainerB") THEN ContainerB_update(s1, other) ELSE s1

ContainerAB_update(self, other) ==
  LET s1 == IF isinstance(other, "ContainerA") THEN ContainerA_update(self, other) ELSE self
  IN IF isinstance(other, "ContainerB") THEN ContainerB_update(s1, other) ELSE s1

\* self.update(other): the content of self afterwards
update(self, other) ==
  CASE self.t = "ContainerA" -> ContainerA_update(self, other)
    [] self.t = "ContainerB" -> ContainerB_update(self, other)
    [] self.t = "ContainerAB" -> ContainerAB_update(self, other)

\* run_state(et, initial_state) is called: internal_state is bound to the
\* object main gave; initial_state is the content of that object
StateTask(et, initial_state) ==
  [gen |-> NewGen(et), exp |-> 0, parent |-> 0, pc |-> "run", next_send |-> None,
   dep_resolver |-> "none", result |-> None, kids |-> <<>>, trace |-> <<>>, sent |-> <<>>,
   finished_at |-> 0, internal_state |-> TheInitialState, initial_state |-> initial_state]

\* a SetState that is answered and leaves the cell alone
SetState_ignored(T, value) == [T EXCEPT !.next_send = None]

\* case SetState(value) of 70_state.py: internal_state = value
SetState_replacing(T, value) == [T EXCEPT !.internal_state = value, !.next_send = None]

\* a SetState that binds internal_state to an updated copy of the cell and
\* leaves the object main gave as it was
SetState_updating_a_copy(T, value) ==
  [T EXCEPT !.internal_state = update(IF @ = TheInitialState THEN T.initial_state ELSE @, value),
            !.next_send = None]

\* case SetState(value) of 71_state_fixed.py: internal_state.update(value);
\* internal_state is the object main gave
SetState_updating(T, value) ==
  [T EXCEPT !.initial_state = update(@, IF value = TheInitialState THEN @ ELSE value),
            !.next_send = None]

\* one iteration of the while loop of run_state
run_state(t) ==
  /\ tasks[t].pc = "run"
  /\ LET T  == tasks[t]
         r  == gen_send(T.gen, T.next_send)
         T1 == [T EXCEPT !.gen = r.g, !.sent = Append(@, T.next_send)]
         T2 == [T1 EXCEPT !.trace = Append(@, r.v)]
     IN tasks' = [tasks EXCEPT ![t] =
          CASE r.k = "return" -> Finish(T1, "done", TupleV(<<r.v, T.internal_state>>))
            [] r.k = "raise" -> Finish(T1, "raised", r.v)
            [] r.k = "yield" /\ r.v.t = "GetState" -> [T2 EXCEPT !.next_send = T.internal_state]
            [] r.k = "yield" /\ r.v.t = "SetState" ->
                 IF driver = "run_state" THEN SetState_replacing(T2, r.v.state)
                 ELSE SetState_updating(T2, r.v.state)
            [] OTHER -> T2]
  /\ UNCHANGED driver

InitialStates == {ContainerA(0), ContainerB("no"), ContainerAB("no", 0)}

StateValues ==
  {ContainerA(n) : n \in 1..MaxVal}
    \cup {ContainerB("hello"), ContainerB("bye")}
    \cup {ContainerAB("hello", 1)}

\* prog1 and prog2 delegate to set_state (the number they return plays no
\* part in the state)
StateAtoms ==
  {set_state(v) : v \in StateValues}
    \cup {get_state(c) : c \in StateTypes}
    \cup {middleman(set_state(ContainerA(1))), middleman(set_state(ContainerB("hello")))}

StatePrograms == {sequence(ps) : ps \in UNION {[1..n -> StateAtoms] : n \in 1..MaxOps}}

InitState ==
  /\ driver \in StateDrivers
  /\ \E et \in StatePrograms, initial_state \in InitialStates :
       tasks = <<StateTask(et, initial_state)>>

NextState == \E t \in DOMAIN tasks : run_state(t)

SpecState == InitState /\ [][NextState]_vars

--------------------------------------------------------------------------
(* The logging drivers: 30_logging_basic.py and 22_logging_with_combinators.py
   (the three drivers are the same code in both files) *)

LoggingDrivers == {"run_printing", "run_muted", "run_collecting"}

\* main calls run(exp): log_messages is the list of run_collecting, stdout
\* the lines printed
LogTask(run, exp) ==
  [gen |-> NewGen(exp), exp |-> 0, parent |-> 0, pc |-> "run", next_send |-> None,
   dep_resolver |-> "none", result |-> None, kids |-> <<>>, trace |-> <<>>, sent |-> <<>>,
   finished_at |-> 0, run |-> run, log_messages |-> <<>>, stdout |-> <<>>]

\* severity.upper()
upper(severity) ==
  CASE severity = "error" -> "ERROR"
    [] severity = "warning" -> "WARNING"
    [] severity = "info" -> "INFO"

\* case LogMessage(severity, msg) of run_printing
print(T, command) ==
  IF command.t = "LogMessage"
    THEN [T EXCEPT !.stdout = Append(@, upper(command.severity) \o ": " \o command.message)]
    ELSE T

\* case LogMessage() of run_muted: pass
pass(T, command) == T

\* a list that takes each message at its head
log_messages_push(T, command) ==
  IF command.t = "LogMessage" THEN [T EXCEPT !.log_messages = <<command>> \o @] ELSE T

\* case LogMessage() as log of run_collecting
log_messages_append(T, command) ==
  IF command.t = "LogMessage" THEN [T EXCEPT !.log_messages = Append(@, command)] ELSE T

\* a driver whose except clause has no return statement
return_nothing(T, value) == None

\* return e.value
return_value(T, value) == value

\* return e.value, log_messages
return_value_and_log_messages(T, value) == TupleV(<<value, ListV(T.log_messages)>>)

\* main makes its calls one after the other
Called(t, run) ==
  /\ tasks[t].run = run
  /\ tasks[t].pc = "run"
  /\ \A s \in 1..(t - 1) : tasks[s].pc # "run"

\* the task after command = exp.send(None), before the match statement
Sent(T, r) ==
  IF r.k = "yield"
    THEN [T EXCEPT !.gen = r.g, !.sent = Append(@, None), !.trace = Append(@, r.v)]
    ELSE [T EXCEPT !.gen = r.g, !.sent = Append(@, None)]

\* one iteration of the while loop of run_printing
run_printing(t) ==
  /\ Called(t, "run_printing")
  /\ LET r == gen_send(tasks[t].gen, None)
         T == Sent(tasks[t], r)
     IN tasks' = [tasks EXCEPT ![t] =
          CASE r.k = "return" -> Finish(T, "done", return_value(T, r.v))
            [] r.k = "raise" -> Finish(T, "raised", r.v)
            [] OTHER -> print(T, r.v)]
  /\ UNCHANGED driver

\* one iteration of the while loop of run_muted
run_muted(t) ==
  /\ Called(t, "run_muted")
  /\ LET r == gen_send(tasks[t].gen, None)
         T == Sent(tasks[t], r)
     IN tasks' = [tasks EXCEPT ![t] =
          CASE r.k = "return" -> Finish(T, "done", return_value(T, r.v))
            [] r.k = "raise" -> Finish(T, "raised", r.v)
            [] OTHER -> pass(T, r.v)]
  /\ UNCHANGED driver

\* one iteration of the while loop of run_collecting
run_collecting(t) ==
  /\ Called(t, "run_collecting")
  /\ LET r == gen_send(tasks[t].gen, None)
         T == Sent(tasks[t], r)
     IN tasks' = [tasks EXCEPT ![t] =
          CASE r.k = "return" -> Finish(T, "done", return_value_and_log_messages(T, r.v))
            [] r.k = "raise" -> Finish(T, "raised", r.v)
            [] OTHER -> log_messages_append(T, r.v)]
  /\ UNCHANGED driver

\* add and divide of 30_logging_basic.py
add30(v) == sequence(<<log_info("adding"), pure(v)>>)

divide30 == sequence(<<log_info("trying to divide"), log_error("Can't divide by 0")>>)

LogAtoms30 ==
  {log_info("Started prog1"), log_info("Finished prog1"), log_warning("Started prog1"), divide30}
    \cup {add30(v) : v \in Vals}

LogPrograms30 == {sequence(ps) : ps \in UNION {[1..n -> LogAtoms30] : n \in 1..MaxLogs}}

\* add and divide of 22_logging_with_combinators.py (@logable)
add(v) == Logging(sequence(<<Logging_info("adding"), pure(v)>>))

divide == Logging(sequence(<<Logging_info("trying to divide"), Logging_error("Can't divide by 0")>>))

LogAtoms22 ==
  {Logging_info("Started prog1"), Logging_info("Finished prog1"), Logging_warning("Started prog1"),
   divide, errors_as_warning(divide), muted(errors_as_warning(divide))}
    \cup {add(v) : v \in Vals}
    \cup {muted(add(v)) : v \in Vals}

LogPrograms22 ==
  {Logging(sequence(ps)) : ps \in UNION {[1..n -> LogAtoms22] : n \in 1..MaxLogs}}

\* lambda _: -1 over the errors a logging program halts with
_recover_minus_one == [e \in Errors \cup {"boom"} |-> IntV(-1)]

\* a @logable program that logs and then halts
log_then_halt(msgs, e) ==
  Logging(sequence([i \in 1..Len(msgs) |-> Logging_info(msgs[i])] \o <<halt_with_error(e)>>))

\* recover_with of 30_either_basic.py around programs that log and halt
LogProgramsRecovered ==
  {recover_with(log_then_halt(msgs, e), _recover_minus_one) :
     msgs \in UNION {[1..n -> {"start", "adding"}] : n \in 0..MaxLogs},
     e \in Errors \cup {"boom"}}

\* prog1 of 22_logging_with_combinators.py, and programs of its shape: a
\* message, a delegation to a muted or transformed sub-program, a message
prog1(v) ==
  Logging(sequence(<<Logging_info("Started prog1"), muted(add(v)), muted(add(v)),
                    errors_as_warning(divide), Logging_info("Finished prog1")>>))

LogProgramsDelegating ==
  {prog1(v) : v \in Vals}
    \cup {Logging(sequence(<<Logging_error("Started prog1"), w, Logging_info("Finished prog1")>>)) :
            w \in {muted(divide), errors_as_warning(divide), muted(errors_as_warning(divide)),
                   errors_as_warning(muted(divide))}}

\* main runs a new instance of the program under each driver; a Logging
\* object has its combinators, and run_collecting is given p.muted(),
\* p.errors_as_warning() and a _TransformSeverity of info to error too
LoggingMain(p) ==
  <<LogTask("run_printing", p), LogTask("run_muted", p), LogTask("run_collecting", p)>>
    \o (IF p.op = "Logging"
          THEN <<LogTask("run_collecting", muted(p)),
                 LogTask("run_collecting", errors_as_warning(p)),
                 LogTask("run_collecting", Logging(_TransformSeverity(p, "info", "error")))>>
          ELSE <<>>)

InitLogging ==
  /\ driver = "main"
  /\ \E p \in LogPrograms30 \cup LogPrograms22 \cup LogProgramsRecovered \cup LogProgramsDelegating :
       tasks = LoggingMain(p)

NextLogging ==
  \/ \E t \in DOMAIN tasks : run_printing(t)
  \/ \E t \in DOMAIN tasks : run_muted(t)
  \/ \E t \in DOMAIN tasks : run_collecting(t)

SpecLogging == InitLogging /\ [][NextLogging]_vars


--------------------------------------------------------------------------
(* What a drive loop has observed of its program *)

\* what each resume of the program of task T produced, in order
Outcomes(T) ==
  [i \in 1..Len(T.sent) |->
     IF i <= Len(T.trace) THEN [k |-> "yield", v |-> T.trace[i]]
     ELSE [k |-> IF T.pc = "raised" THEN "raise" ELSE "return", v |-> T.result]]

\* what a fresh generator g produces when it is resumed with the values of sent
RECURSIVE Replay(_, _)
Replay(g, sent) ==
  IF sent = <<>> THEN <<>>
  ELSE LET r == gen_send(g, Head(sent))
       IN <<[k |-> r.k, v |-> r.v]>> \o Replay(r.g, Tail(sent))

\* the program with the bodies of its middlemen inlined
RECURSIVE Flatten(_)
Flatten(p) ==
  CASE p.op \in {"middleman", "Either"} -> Flatten(p.ps[1])
    [] p.op = "sequence" -> sequence([i \in 1..Len(p.ps) |-> Flatten(p.ps[i])])
    [] p.op = "recover_with" -> recover_with(Flatten(p.ps[1]), p.f)
    [] p.op = "recover_with_either" -> recover_with_either(Flatten(p.ps[1]), p.g)
    [] OTHER -> p

Program(t) == tasks[t].gen.p

\* the program inside the Either object, if it is one
Unwrap(p) == IF p.op = "Either" THEN p.ps[1] ELSE p

Combinator(t) == Unwrap(Program(t))

Over(t) == tasks[t].pc \in {"done", "raised"}

--------------------------------------------------------------------------
\* C1: a program that delegates through middlemen, at any depth, gives its
\* drive loop the same suspensions and the same final outcome as the program
\* with the delegated bodies inlined, resumed with the same replies.
C1_DelegationTransparent ==
  \A t \in DOMAIN tasks :
    Outcomes(tasks[t]) = Replay(NewGen(Flatten(Program(t))), tasks[t].sent)

\* a reply has travelled through two delegation layers to the program that
\* asked for it, and its value has come back as the result
C1_Witness ==
  \E t \in DOMAIN tasks : \E d \in DepTypes :
    /\ Program(t) = middleman(middleman(get_dependency(d)))
    /\ tasks[t].pc = "done"
    /\ tasks[t].trace = <<RequestDependency(d)>>
    /\ tasks[t].result = Instance("impl1", d)

--------------------------------------------------------------------------
\* C2: once a StopFromError has reached a drive loop, the loop has returned
\* that StopFromError as its result and has not resumed the program again:
\* the halt is the last command of the loop and no resume follows it.
C2_HaltEndsTheDrive ==
  \A t \in DOMAIN tasks : \A i \in 1..Len(tasks[t].trace) :
    IsStopFromError(tasks[t].trace[i]) =>
      /\ i = Len(tasks[t].trace)
      /\ Len(tasks[t].sent) = i
      /\ tasks[t].pc = "done"
      /\ tasks[t].result = tasks[t].trace[i]

\* a loop has returned the halt of a program whose body goes on after the
\* halt; the statement after the halt never ran
C2_Witness ==
  \E t \in DOMAIN tasks : \E e \in Errors, v \in Vals :
    /\ Program(t) = sequence(<<halt_with_error(e), middleman(pure(v))>>)
    /\ tasks[t].pc = "done"
    /\ tasks[t].result = StopFromError(e)
    /\ tasks[t].gen.acc = <<>>
    /\ tasks[t].gen.st = "closed"

--------------------------------------------------------------------------
(* Gather as seen from the parent program *)

\* the program is a gather / join, possibly behind a middleman
GatherSubs(p) ==
  CASE p.op \in {"gather", "join"} -> <<p.subs>>
    [] p.op = "middleman" /\ p.ps[1].op \in {"gather", "join"} -> <<p.ps[1].subs>>
    [] OTHER -> <<>>

\* the result of the drive of the i-th sub-program of the gather of task t
BranchResult(t, i) == tasks[tasks[t].kids[i]].result

BranchesReturned(t) ==
  /\ tasks[t].kids # <<>>
  /\ \A i \in 1..Len(tasks[t].kids) : tasks[tasks[t].kids[i]].pc = "done"

HaltedBranches(t) ==
  {i \in 1..Len(tasks[t].kids) : IsStopFromError(BranchResult(t, i))}

FirstHalted(t) == CHOOSE i \in HaltedBranches(t) : \A j \in HaltedBranches(t) : i <= j

--------------------------------------------------------------------------
\* C3 (as claimed): under every IO driver, when a branch of a gather halts
\* with e the parent is resumed with ExitInPlace(e), and recover_with(parent, f)
\* completes with f(e).
C3_GatherHaltIsRecoveredByParent ==
  \A t \in DOMAIN tasks :
    ( /\ Combinator(t).op = "recover_with"
      /\ Combinator(t).ps[1].op \in {"gather", "join"}
      /\ BranchesReturned(t)
      /\ HaltedBranches(t) # {}
      /\ Over(t) ) =>
        /\ tasks[t].sent = <<None, ExitInPlace(BranchResult(t, FirstHalted(t)).error)>>
        /\ tasks[t].result = Combinator(t).f[BranchResult(t, FirstHalted(t)).error]

--------------------------------------------------------------------------
\* C4: a gather without recovery whose branches have all returned, at least
\* one of them halted, makes the drive of the parent return that
\* StopFromError (the one of the first halted branch of the list), under the
\* blocking, the dependency and the asynchronous driver and in whatever order
\* the branches ended.
C4_GatherHaltsWithBranchError ==
  \A t \in DOMAIN tasks :
    ( /\ GatherSubs(Program(t)) # <<>>
      /\ BranchesReturned(t)
      /\ HaltedBranches(t) # {}
      /\ Over(t) ) =>
        /\ tasks[t].pc = "done"
        /\ tasks[t].result = BranchResult(t, FirstHalted(t))

\* under the asynchronous driver the second branch halted while the first was
\* still asleep, and the drive of the gather returned that halt
C4_Witness ==
  \E t \in DOMAIN tasks : \E e \in Errors, v \in Vals :
    /\ driver = "run_io_async"
    /\ Program(t) = gather(<<sequence(<<sleep, pure(v)>>), halt_with_error(e)>>)
    /\ tasks[t].pc = "done"
    /\ tasks[t].result = StopFromError(e)
    /\ tasks[tasks[t].kids[2]].finished_at < tasks[tasks[t].kids[1]].finished_at

--------------------------------------------------------------------------
\* C5: a gather whose branches have all completed returns the list whose
\* i-th element is the value of the i-th sub-program of the list it was
\* given, under every IO driver and in whatever order the branches ended.
C5_GatherKeepsListOrder ==
  \A t \in DOMAIN tasks :
    ( /\ GatherSubs(Program(t)) # <<>>
      /\ BranchesReturned(t)
      /\ HaltedBranches(t) = {}
      /\ Over(t) ) =>
        /\ tasks[t].pc = "done"
        /\ tasks[t].result.t = "list"
        /\ Len(tasks[t].result.items) = Len(GatherSubs(Program(t))[1])
        /\ \A i \in 1..Len(GatherSubs(Program(t))[1]) :
             /\ Program(tasks[t].kids[i]) = GatherSubs(Program(t))[1][i]
             /\ tasks[t].result.items[i] = BranchResult(t, i)

\* under the asynchronous driver the second branch completed before the
\* first, and the list still holds the value of the first branch first
C5_Witness ==
  \E t \in DOMAIN tasks : \E v \in Vals, w \in Vals :
    /\ driver = "run_io_async"
    /\ Program(t) = gather(<<sequence(<<sleep, pure(v)>>), pure(w)>>)
    /\ v # w
    /\ tasks[t].pc = "done"
    /\ tasks[t].result = ListV(<<TupleV(<<None, v>>), w>>)
    /\ tasks[tasks[t].kids[2]].finished_at < tasks[tasks[t].kids[1]].finished_at

--------------------------------------------------------------------------
\* C6 (as claimed): under every driver the drive of recover_with(p, f) never
\* returns a StopFromError.
C6_RecoverWithNeverHalts ==
  \A t \in DOMAIN tasks :
    (Combinator(t).op = "recover_with" /\ tasks[t].pc = "done") =>
      ~IsStopFromError(tasks[t].result)

--------------------------------------------------------------------------
\* what recover_with(p, f) is to produce, given what p produces
Recovered(outcomes, f) ==
  [i \in 1..Len(outcomes) |->
     IF outcomes[i].k = "yield" /\ IsStopFromError(outcomes[i].v)
       THEN [k |-> "return", v |-> f[outcomes[i].v.error]]
       ELSE outcomes[i]]

\* C7: recover_with(p, f) hands every command of p that is no StopFromError
\* to its driver unchanged and in order, and every reply of the driver
\* (ExitInPlace included) to p unchanged: resumed with the replies the wrapper
\* got, p alone produces the same commands up to its first StopFromError, in
\* whose place the wrapper returns f(e).
C7_RecoverWithForwards ==
  \A t \in DOMAIN tasks :
    Combinator(t).op = "recover_with" =>
      Outcomes(tasks[t]) =
        Recovered(Replay(NewGen(Combinator(t).ps[1]), tasks[t].sent), Combinator(t).f)

\* a RequestDependency went through the wrapper, its reply came back to the
\* decorated program, and the halt that followed was recovered
C7_Witness ==
  \E t \in DOMAIN tasks : \E e \in Errors, f \in RecoverFns :
    /\ Program(t) = recover_with(sequence(<<get_dependency("Logger"), halt_with_error(e)>>), f)
    /\ tasks[t].pc = "done"
    /\ tasks[t].trace = <<RequestDependency("Logger")>>
    /\ tasks[t].sent = <<None, Instance("impl1", "Logger")>>
    /\ tasks[t].gen.sub[1].acc = <<Instance("impl1", "Logger")>>
    /\ tasks[t].result = f[e]

--------------------------------------------------------------------------
SyncDrivers == {"run_either", "run_io_blocking", "run_io_deps"}

\* C8: under the synchronous drivers recover_with(halt_with_error(e), f) is
\* to its drive loop what pure(f(e)) is: the first resume completes with
\* f(e) and the loop sees no suspension.
C8_RecoverHaltIsPure ==
  \A t \in DOMAIN tasks : \A e \in Errors, f \in RecoverFns :
    ( /\ driver \in SyncDrivers
      /\ Combinator(t).op = "recover_with"
      /\ Unwrap(Combinator(t).ps[1]) = halt_with_error(e)
      /\ Combinator(t).f = f
      /\ tasks[t].sent # <<>> ) =>
        /\ tasks[t].pc = "done"
        /\ tasks[t].result = f[e]
        /\ tasks[t].trace = <<>>
        /\ Outcomes(tasks[t]) = Replay(NewGen(pure(f[e])), tasks[t].sent)

C8_Witness ==
  \E f \in RecoverFns :
    /\ driver = "run_either"
    /\ Program(1) = recover_with(halt_with_error("e2"), f)
    /\ f["e2"] # f["e1"]
    /\ tasks[1].pc = "done"
    /\ tasks[1].result = f["e2"]
    /\ tasks[1].gen.sub[1].st = "yield"

--------------------------------------------------------------------------
\* C9: recover_with_either(halt_with_error(e), g) gives its drive loop what
\* g(e) alone gives it: the same commands and the same final outcome, the
\* first of them in the very resume in which the decorated program halted.
C9_RecoverWithEitherIsRecovery ==
  \A t \in DOMAIN tasks : \A e \in Errors :
    ( /\ Combinator(t).op = "recover_with_either"
      /\ Unwrap(Combinator(t).ps[1]) = halt_with_error(e) ) =>
        Outcomes(tasks[t]) = Replay(NewGen(Combinator(t).g[e]), tasks[t].sent)

\* the decorated program halted with "e1", the recovery program with "e2":
\* the loop has seen the StopFromError of the recovery program only, in its
\* first resume
C9_Witness ==
  /\ Program(1) = recover_with_either(halt_with_error("e1"), _recover_halting_with_other)
  /\ tasks[1].pc = "done"
  /\ tasks[1].sent = <<None>>
  /\ tasks[1].trace = <<StopFromError("e2")>>
  /\ tasks[1].gen.sub[1].p = halt_with_error("e1")

--------------------------------------------------------------------------
\* the first outcome of program p driven alone
FirstOutcome(p) == Replay(NewGen(p), <<None>>)[1]

Halts(p, e) == FirstOutcome(p) = [k |-> "yield", v |-> StopFromError(e)]

\* C10: when p halts with e and the recovery program g(e) halts with e2,
\* the drive of recover_with_either(p, g) returns StopFromError(e2): the halt
\* of the recovery program reaches the driver and g is not applied to e2.
C10_RecoveryHaltPropagates ==
  \A t \in DOMAIN tasks : \A e \in Errors, e2 \in Errors :
    ( /\ Combinator(t).op = "recover_with_either"
      /\ Halts(Combinator(t).ps[1], e)
      /\ Halts(Combinator(t).g[e], e2)
      /\ tasks[t].sent # <<>> ) =>
        /\ tasks[t].pc = "done"
        /\ tasks[t].trace = <<StopFromError(e2)>>
        /\ tasks[t].result = StopFromError(e2)

\* g would have recovered from "e2", the error its own program halted with,
\* and the drive has returned that halt
C10_Witness ==
  \E t \in DOMAIN tasks :
    /\ Program(t) = recover_with_either(middleman(halt_with_error("e1")), _recover_halting_with_other)
    /\ _recover_halting_with_other["e2"] = pure(IntV(0))
    /\ tasks[t].pc = "done"
    /\ tasks[t].result = StopFromError("e2")
    /\ Len(tasks[t].gen.sub) = 2

--------------------------------------------------------------------------
\* the errors the drive of task t has shown outside of its branches: to the
\* program (ExitInPlace replies), as commands of the program, as its result
SurfacedErrors(t) ==
  {tasks[t].sent[i].error : i \in {j \in 1..Len(tasks[t].sent) : IsExitInPlace(tasks[t].sent[j])}}
    \cup {tasks[t].trace[i].error :
            i \in {j \in 1..Len(tasks[t].trace) : IsStopFromError(tasks[t].trace[j])}}
    \cup (IF IsStopFromError(tasks[t].result) THEN {tasks[t].result.error} ELSE {})

\* C11: when several branches of one gather have halted, the drive of the
\* gather shows exactly one error, the one of the halted branch of lowest
\* index in the list, in whatever order in time the branches halted; the
\* errors of the other branches appear nowhere.
C11_GatherSurfacesLowestIndexHalt ==
  \A t \in DOMAIN tasks :
    ( /\ BranchesReturned(t)
      /\ Cardinality(HaltedBranches(t)) >= 2
      /\ Over(t) ) =>
        SurfacedErrors(t) = {BranchResult(t, FirstHalted(t)).error}

\* under the asynchronous driver the second branch halted with "e2" while
\* the first was asleep, the first halted with "e1" afterwards, and the
\* recovery of the parent was given "e1"
C11_Witness ==
  \E t \in DOMAIN tasks : \E f \in RecoverFns :
    /\ driver = "run_io_async"
    /\ Program(t) = recover_with(gather(<<sequence(<<sleep, halt_with_error("e1")>>),
                                          halt_with_error("e2")>>), f)
    /\ f["e1"] # f["e2"]
    /\ tasks[t].pc = "done"
    /\ tasks[t].result = f["e1"]
    /\ tasks[tasks[t].kids[2]].finished_at < tasks[tasks[t].kids[1]].finished_at

--------------------------------------------------------------------------
\* the reply the loop of a branch computes for a command of that branch
OwnReply(T, command) ==
  IF command.t = "RequestDependency" /\ driver = "run_io_deps"
    THEN Instance(T.dep_resolver, command.dep_type)
    ELSE None

Gathers_seen(t) == {i \in 1..Len(tasks[t].trace) : tasks[t].trace[i].t = "Gather"}

\* C12: every branch of a gather has a suspension stream of its own.  The
\* loop of the parent sees the one Gather command (and the halt the gather
\* itself issues afterwards), never a command of a branch; every resume input
\* of a branch is the reply its own loop computed for its own previous
\* command; no reply computed for a branch is a resume input of the parent.
C12_BranchStreamsAreIsolated ==
  \A t \in DOMAIN tasks :
    tasks[t].kids # <<>> =>
      /\ Cardinality(Gathers_seen(t)) = 1
      /\ \A i \in 1..Len(tasks[t].trace) : tasks[t].trace[i].t \in {"Gather", "StopFromError"}
      /\ \A i \in 1..Len(tasks[t].sent) : tasks[t].sent[i].t \in {"None", "list", "ExitInPlace"}
      /\ \A c \in 1..Len(tasks[t].kids) :
           LET B == tasks[tasks[t].kids[c]]
           IN /\ B.parent = t
              /\ B.kids = <<>>
              /\ Outcomes(B) = Replay(NewGen(tasks[t].trace[1].subtasks[c]), B.sent)
              /\ \A k \in 1..Len(B.sent) :
                   B.sent[k] = IF k = 1 THEN None ELSE OwnReply(B, B.trace[k - 1])
              /\ B.pc = "run" /\ Len(B.sent) > 0 => B.next_send = OwnReply(B, B.trace[Len(B.sent)])

\* two branches have asked for different dependencies: each got the instance
\* it asked for in its own loop, and the loop of the parent has seen the
\* Gather only
C12_Witness ==
  \E t \in DOMAIN tasks :
    /\ Program(t) = gather(<<get_dependency("Logger"), get_dependency("StateDao")>>)
    /\ tasks[t].pc = "done"
    /\ tasks[t].trace = <<Gather(<<get_dependency("Logger"), get_dependency("StateDao")>>)>>
    /\ tasks[tasks[t].kids[1]].trace = <<RequestDependency("Logger")>>
    /\ tasks[tasks[t].kids[1]].sent = <<None, Instance("impl1", "Logger")>>
    /\ tasks[tasks[t].kids[2]].trace = <<RequestDependency("StateDao")>>
    /\ tasks[tasks[t].kids[2]].sent = <<None, Instance("impl1", "StateDao")>>
    /\ tasks[t].result = ListV(<<Instance("impl1", "Logger"), Instance("impl1", "StateDao")>>)

--------------------------------------------------------------------------
\* the loops that have resumed the generator object held by task o
LoopsOf(o) == {t \in DOMAIN tasks : Owner(t) = o /\ tasks[t].sent # <<>>}

\* C13 (as claimed): under the asynchronous driver no program instance is
\* resumed by two different drive loops, whatever list of sub-programs is
\* handed to gather.
C13_OneLoopPerInstance ==
  driver = "run_io_async" =>
    \A o \in DOMAIN tasks : Cardinality(LoopsOf(o)) <= 1

--------------------------------------------------------------------------
\* C14: under the asynchronous driver the Gather step launches the loops of
\* all branches at once; as long as the gather is not joined every branch that
\* has a step to take can take it, whatever its siblings do (asleep or not),
\* and the parent is resumed after the Gather only when every branch has
\* returned.
C14_AsyncBranchesRunConcurrently ==
  driver = "run_io_async" =>
    \A t \in DOMAIN tasks :
      tasks[t].kids # <<>> =>
        /\ Len(tasks[t].kids) = Len(tasks[t].trace[1].subtasks)
        /\ \A c \in 1..Len(tasks[t].kids) :
             /\ tasks[tasks[t].kids[c]].pc = "run" => Runnable(tasks[t].kids[c])
             /\ tasks[tasks[t].kids[c]].pc = "sleeping" => ENABLED sleep_done(tasks[t].kids[c])
        /\ Len(tasks[t].sent) > 1 => BranchesReturned(t)
        /\ tasks[t].pc = "gather" => tasks[t].sent = <<None>>

\* the first branch is asleep, the second branch, launched with it, has
\* already completed, and the parent still waits for the join
C14_Witness ==
  \E t \in DOMAIN tasks : \E v \in Vals, w \in Vals :
    /\ driver = "run_io_async"
    /\ Program(t) = gather(<<sequence(<<sleep, pure(v)>>), pure(w)>>)
    /\ tasks[t].pc = "gather"
    /\ tasks[t].sent = <<None>>
    /\ tasks[tasks[t].kids[1]].pc = "sleeping"
    /\ tasks[tasks[t].kids[2]].pc = "done"
    /\ tasks[tasks[t].kids[2]].result = w
    /\ tasks[tasks[t].kids[2]].finished_at = 1

--------------------------------------------------------------------------
\* the steps that can be taken next
EnabledSteps ==
  {<<"run_io", t>> : t \in {s \in DOMAIN tasks : Runnable(s)}}
    \cup {<<"sleep_done", t>> : t \in {s \in DOMAIN tasks : ENABLED sleep_done(s)}}
    \cup {<<"gather_done", t>> : t \in {s \in DOMAIN tasks : ENABLED gather_done(s)}}
    \cup {<<"gather_raised", t>> : t \in {s \in DOMAIN tasks : ENABLED gather_raised(s)}}

\* C15: under the synchronous drivers a branch of a gather has its first
\* resume only when every branch before it in the list has returned, the
\* branches end in list order, and at every moment at most one step can be
\* taken (each step is a function of the state), so that a program and a
\* resolver determine the whole run: its traces and its result.
C15_SyncBranchesRunInListOrder ==
  driver \in SyncDrivers =>
    /\ \A t \in DOMAIN tasks : \A i \in 1..Len(tasks[t].kids) : \A j \in 1..Len(tasks[t].kids) :
         (i < j /\ tasks[tasks[t].kids[j]].sent # <<>>) =>
           /\ tasks[tasks[t].kids[i]].pc = "done"
           /\ tasks[tasks[t].kids[j]].finished_at > 0 =>
                tasks[tasks[t].kids[i]].finished_at < tasks[tasks[t].kids[j]].finished_at
    /\ Cardinality(EnabledSteps) <= 1

\* under the dependency driver the second branch has just had its first
\* resume; the first branch, two resumes long, has returned before
C15_Witness ==
  \E t \in DOMAIN tasks :
    /\ driver = "run_io_deps"
    /\ Program(t) = gather(<<middleman(get_dependency("Logger")), get_dependency("StateDao")>>)
    /\ tasks[t].pc = "gather"
    /\ tasks[tasks[t].kids[1]].pc = "done"
    /\ Len(tasks[tasks[t].kids[1]].sent) = 2
    /\ tasks[tasks[t].kids[2]].sent = <<None>>
    /\ tasks[tasks[t].kids[2]].pc = "run"

--------------------------------------------------------------------------
\* What program p computes from the replies to its suspensions, each reply
\* taken by the suspension point that comes next in the program text:
\* k = "value" (completed with v), "halt" (halted with error v) or "pending"
\* (suspended with no reply left); rest = the replies not taken.
RECURSIVE Eval(_, _), EvalSeq(_, _, _)
Eval(p, replies) ==
  CASE p.op = "pure" -> [k |-> "value", v |-> p.v, rest |-> replies]
    [] p.op = "halt_with_error" -> [k |-> "halt", v |-> p.e, rest |-> replies]
    [] p.op \in {"sleep", "get_dependency", "join", "gather"} ->
         IF replies = <<>> THEN [k |-> "pending", v |-> None, rest |-> <<>>]
         ELSE IF p.op = "sleep" THEN [k |-> "value", v |-> None, rest |-> Tail(replies)]
         ELSE IF p.op = "gather" /\ IsExitInPlace(Head(replies))
           THEN [k |-> "halt", v |-> Head(replies).error, rest |-> Tail(replies)]
         ELSE [k |-> "value", v |-> Head(replies), rest |-> Tail(replies)]
    [] p.op \in {"middleman", "Either"} -> Eval(p.ps[1], replies)
    [] p.op = "sequence" -> EvalSeq(p.ps, <<>>, replies)
    [] p.op = "recover_with" ->
         LET r == Eval(p.ps[1], replies)
         IN IF r.k = "halt" THEN [k |-> "value", v |-> p.f[r.v], rest |-> r.rest] ELSE r
    [] p.op = "recover_with_either" ->
         LET r == Eval(p.ps[1], replies)
         IN IF r.k = "halt" THEN Eval(p.g[r.v], r.rest) ELSE r

EvalSeq(ps, values, replies) ==
  IF ps = <<>> THEN [k |-> "value", v |-> TupleV(values), rest |-> replies]
  ELSE LET r == Eval(Head(ps), replies)
       IN IF r.k = "value" THEN EvalSeq(Tail(ps), Append(values, r.v), r.rest) ELSE r

\* the reply the loop of task t owes to its k-th command
ReplyTo(t, k) ==
  IF tasks[t].trace[k].t = "Gather"
    THEN IF HaltedBranches(t) = {}
           THEN ListV([i \in 1..Len(tasks[t].kids) |-> BranchResult(t, i)])
           ELSE ExitInPlace(BranchResult(t, FirstHalted(t)).error)
    ELSE OwnReply(tasks[t], tasks[t].trace[k])

\* C16: in every drive loop the first resume input is None and the input of
\* resume k + 1 is the reply to the k-th command, once and in order; the
\* replies reach the suspension points of the program in program order,
\* through middlemen and recover_with: a loop that has returned holds what
\* the program computes from exactly these replies, none left over.
C16_RepliesReachTheirSuspensionPoints ==
  \A t \in DOMAIN tasks :
    /\ tasks[t].sent # <<>> => tasks[t].sent[1] = None
    /\ Len(tasks[t].sent) <= Len(tasks[t].trace) + 1
    /\ \A k \in 1..(Len(tasks[t].sent) - 1) : tasks[t].sent[k + 1] = ReplyTo(t, k)
    /\ tasks[t].pc = "run" /\ tasks[t].trace # <<>> =>
         tasks[t].next_send = ReplyTo(t, Len(tasks[t].trace))
    /\ tasks[t].pc = "done" =>
         LET r == Eval(Program(t), Tail(tasks[t].sent))
         IN /\ r.rest = <<>>
            /\ r.k = "value" => tasks[t].result = r.v
            /\ r.k = "halt" => tasks[t].result = StopFromError(r.v)
            /\ r.k = "pending" => driver = "run_io_blocking" /\ IsStopFromError(tasks[t].result)

\* two replies went through a recover_with and a sequence, each to the
\* get_dependency that had asked for it
C16_Witness ==
  \E t \in DOMAIN tasks : \E f \in RecoverFns :
    /\ Program(t) = recover_with(sequence(<<get_dependency("Logger"), get_dependency("StateDao")>>), f)
    /\ tasks[t].pc = "done"
    /\ tasks[t].trace = <<RequestDependency("Logger"), RequestDependency("StateDao")>>
    /\ tasks[t].sent = <<None, Instance("impl1", "Logger"), Instance("impl1", "StateDao")>>
    /\ tasks[t].result = TupleV(<<Instance("impl1", "Logger"), Instance("impl1", "StateDao")>>)

--------------------------------------------------------------------------
\* C17: the drive of halt_with_error(e) alone sees exactly one suspension,
\* the StopFromError carrying e, and returns that StopFromError: one resume,
\* no second one.
C17_HaltAloneHaltsAfterOneSuspension ==
  \A t \in DOMAIN tasks : \A e \in Errors :
    (Combinator(t) = halt_with_error(e) /\ tasks[t].sent # <<>>) =>
      /\ tasks[t].sent = <<None>>
      /\ tasks[t].trace = <<StopFromError(e)>>
      /\ tasks[t].pc = "done"
      /\ tasks[t].result = StopFromError(e)

C17_Witness ==
  /\ driver = "run_either"
  /\ Program(1) = halt_with_error("e2")
  /\ tasks[1].pc = "done"
  /\ tasks[1].trace = <<StopFromError("e2")>>
  /\ tasks[1].result = StopFromError("e2")
  /\ tasks[1].gen.st = "closed"

--------------------------------------------------------------------------
\* C18: under every driver the drive of pure(v) alone returns v in its first
\* resume and sees no suspension.
C18_PureAloneCompletesAtOnce ==
  \A t \in DOMAIN tasks : \A v \in Vals :
    (Combinator(t) = pure(v) /\ tasks[t].sent # <<>>) =>
      /\ tasks[t].sent = <<None>>
      /\ tasks[t].trace = <<>>
      /\ tasks[t].pc = "done"
      /\ tasks[t].result = v

\* under the asynchronous driver a pure(v) given to run_io has returned v,
\* and so has a pure(w) driven as the branch of a gather
C18_Witness ==
  \E v \in Vals :
    /\ driver = "run_io_async"
    /\ Program(1) = gather(<<pure(v)>>)
    /\ tasks[1].kids # <<>>
    /\ tasks[tasks[1].kids[1]].pc = "done"
    /\ tasks[tasks[1].kids[1]].trace = <<>>
    /\ tasks[tasks[1].kids[1]].sent = <<None>>
    /\ tasks[tasks[1].kids[1]].result = v

--------------------------------------------------------------------------
\* the values of the recovery function f
Range(f) == {f[e] : e \in DOMAIN f}

\* the errors p alone halts with when it is resumed with the values of sent
HaltsOf(p, sent) ==
  LET o == Replay(NewGen(p), sent)
  IN {o[i].v.error : i \in {j \in 1..Len(o) : o[j].k = "yield" /\ IsStopFromError(o[j].v)}}

\* C19: recover_with(pure(v), f) is to its drive loop what pure(v) is: it
\* completes with v in the first resume, the loop sees no suspension, and no
\* value of f appears.  In general a drive of recover_with(p, f) returns a
\* value of f only as f(e) for a StopFromError(e) that p has yielded; as
\* long as p has not halted the wrapper behaves as p.
C19_RecoverPureIsPure ==
  \A t \in DOMAIN tasks :
    Combinator(t).op = "recover_with" =>
      /\ \A v \in Vals :
           (Unwrap(Combinator(t).ps[1]) = pure(v) /\ tasks[t].sent # <<>>) =>
             /\ Outcomes(tasks[t]) = Replay(NewGen(pure(v)), tasks[t].sent)
             /\ tasks[t].pc = "done"
             /\ tasks[t].trace = <<>>
             /\ tasks[t].result = v
             /\ tasks[t].result \notin Range(Combinator(t).f)
      /\ (tasks[t].pc = "done" /\ tasks[t].result \in Range(Combinator(t).f)) =>
           \E e \in HaltsOf(Combinator(t).ps[1], tasks[t].sent) :
             tasks[t].result = Combinator(t).f[e]
      /\ HaltsOf(Combinator(t).ps[1], tasks[t].sent) = {} =>
           Outcomes(tasks[t]) = Replay(NewGen(Combinator(t).ps[1]), tasks[t].sent)

\* recover_with(pure(v), f) has completed with v, the decorated program has
\* returned, and v is no value of f
C19_Witness ==
  \E v \in Vals, f \in RecoverFns :
    /\ driver = "run_either"
    /\ Program(1) = recover_with(pure(v), f)
    /\ tasks[1].pc = "done"
    /\ tasks[1].sent = <<None>>
    /\ tasks[1].result = v
    /\ tasks[1].gen.sub[1].st = "done"
    /\ v \notin Range(f)

--------------------------------------------------------------------------
\* the keys the resolver of main resolves
Resolvable == {"Logger", "StateDao"}

\* the instance the resolver that main gave to run_io holds for key k
Supplied(k) == Instance(tasks[1].dep_resolver, k)

\* C20: under the dependency driver get_dependency(k), k a key the resolver
\* resolves, suspends once with RequestDependency(k) and completes with the
\* instance that the resolver given to the run_io of main holds for k: as a
\* program of its own, behind middlemen, as the branch of a gather and inside
\* recover_with; every RequestDependency(k) of every loop is answered with
\* that instance.
C20_GetDependencyGetsTheResolversInstance ==
  driver = "run_io_deps" =>
    \A t \in DOMAIN tasks : \A k \in Resolvable :
      /\ \A i \in 1..Len(tasks[t].trace) :
           (tasks[t].trace[i] = RequestDependency(k) /\ Len(tasks[t].sent) > i) =>
             tasks[t].sent[i + 1] = Supplied(k)
      /\ (Flatten(Program(t)) = get_dependency(k) /\ tasks[t].sent # <<>>) =>
           /\ tasks[t].trace = <<RequestDependency(k)>>
           /\ Over(t) => tasks[t].pc = "done" /\ tasks[t].result = Supplied(k)
      /\ \A v \in Vals :
           ( /\ Combinator(t).op = "recover_with"
             /\ Combinator(t).ps[1] = sequence(<<get_dependency(k), pure(v)>>)
             /\ Over(t) ) =>
               /\ tasks[t].trace = <<RequestDependency(k)>>
               /\ tasks[t].pc = "done"
               /\ tasks[t].result = TupleV(<<Supplied(k), v>>)

\* main gave the second resolver; a branch of the gather asked for the
\* Logger and completed with the Logger of that resolver
C20_Witness ==
  \E t \in DOMAIN tasks :
    /\ driver = "run_io_deps"
    /\ tasks[1].dep_resolver = "impl2"
    /\ tasks[t].parent = 1
    /\ Program(t) = get_dependency("Logger")
    /\ tasks[t].pc = "done"
    /\ tasks[t].trace = <<RequestDependency("Logger")>>
    /\ tasks[t].result = Instance("impl2", "Logger")

--------------------------------------------------------------------------
\* task t or one of the loops below it has asked for a key that the resolver
\* does not resolve
AskedUnresolvable(t) ==
  \/ \E i \in 1..Len(tasks[t].trace) :
       tasks[t].trace[i].t = "RequestDependency" /\ tasks[t].trace[i].dep_type \notin Resolvable
  \/ \E c \in 1..Len(tasks[t].kids) : tasks[tasks[t].kids[c]].pc = "raised"

\* C21: a request for a key the resolver cannot resolve is fatal.  The loop
\* that got the request raises at once and resumes its program no more; a
\* parent whose branch raised is never resumed after the Gather (no
\* ExitInPlace reaches it) and can only raise too; no such run returns a
\* StopFromError or a value, whether or not a recover_with is around it.
C21_UnresolvableDependencyIsFatal ==
  driver = "run_io_deps" =>
    \A t \in DOMAIN tasks :
      /\ \A i \in 1..Len(tasks[t].trace) :
           (tasks[t].trace[i].t = "RequestDependency" /\ tasks[t].trace[i].dep_type \notin Resolvable) =>
             /\ i = Len(tasks[t].trace)
             /\ Len(tasks[t].sent) = i
             /\ tasks[t].pc = "raised"
             /\ tasks[t].result = Exc("AssertionError")
      /\ AskedUnresolvable(t) =>
           /\ tasks[t].pc \in {"gather", "raised"}
           /\ \A i \in 1..Len(tasks[t].sent) : ~IsExitInPlace(tasks[t].sent[i])
           /\ tasks[t].pc # "gather" => tasks[t].result = Exc("AssertionError")

\* the recover_with around a gather whose branch asked for SomeAdditionalDep
\* has not recovered: the run of main has raised the AssertionError
C21_Witness ==
  \E f \in RecoverFns :
    /\ driver = "run_io_deps"
    /\ Program(1) = recover_with(gather(<<get_dependency("SomeAdditionalDep")>>), f)
    /\ tasks[1].pc = "raised"
    /\ tasks[1].result = Exc("AssertionError")
    /\ tasks[1].sent = <<None>>
    /\ tasks[tasks[1].kids[1]].pc = "raised"

--------------------------------------------------------------------------
\* the drives of main after the first one
Redrives == Drives \ {1}

\* the first drive has left a halt_with_error suspended at its yield: the
\* recover_with around it has returned f(e), or the halting program is the
\* recovery program of a recover_with_either, which close() does not reach
LeftAtHalt ==
  \/ /\ Combinator(1).op = "recover_with"
     /\ tasks[1].pc = "done"
     /\ HaltsOf(Combinator(1).ps[1], tasks[1].sent) # {}
  \/ /\ Combinator(1).op = "recover_with_either"
     /\ tasks[1].pc = "done"
     /\ \E e \in Errors, e2 \in Errors :
          Halts(Combinator(1).ps[1], e) /\ Halts(Unwrap(Combinator(1).g[e]), e2)

\* C22: halt_with_error(e) resumed once more after its StopFromError raises
\* (RuntimeError): it yields nothing, returns nothing.  When the program the
\* first drive left at that yield is resumed through a recover_with or a
\* recover_with_either, the error leaves the wrapper and the drive loop: the
\* drive sees no command and does not return.
C22_ResumingAHaltedProgramIsFatal ==
  /\ \A e \in Errors :
       Replay(NewGen(halt_with_error(e)), <<None, None>>) =
         <<[k |-> "yield", v |-> StopFromError(e)], [k |-> "raise", v |-> Exc("RuntimeError")]>>
  /\ \A t \in Redrives :
       (LeftAtHalt /\ tasks[t].sent # <<>>) =>
         /\ tasks[t].sent = <<None>>
         /\ tasks[t].trace = <<>>
         /\ tasks[t].pc = "raised"
         /\ tasks[t].result = Exc("RuntimeError")

\* the first drive of recover_with(halt_with_error("e1"), f) has returned
\* f("e1"); the second drive of the same object has raised
C22_Witness ==
  \E f \in RecoverFns :
    /\ Program(1) = recover_with(halt_with_error("e1"), f)
    /\ tasks[1].result = f["e1"]
    /\ Len(tasks) = 2
    /\ tasks[2].exp = 1
    /\ tasks[2].pc = "raised"
    /\ tasks[2].result = Exc("RuntimeError")

--------------------------------------------------------------------------
\* C23 (as claimed): once a driver has returned for a program instance, a
\* further drive of that instance sees no suspension and returns neither a
\* value nor a StopFromError: it can only fail.
C23_TerminalIsAbsorbing ==
  \A t \in Redrives :
    tasks[t].sent # <<>> =>
      /\ tasks[t].trace = <<>>
      /\ tasks[t].pc = "raised"

--------------------------------------------------------------------------
(* The state drivers as seen from the program and from main *)

\* the object a value is, read now: the object main gave has the content the
\* driver has given it
Deref(T, v) == IF v = TheInitialState THEN T.initial_state ELSE v

\* a field of a state object, "missing" when the object has no such field
Field(o, f) == IF f \in DOMAIN o THEN o[f] ELSE "missing"

\* the content of the cell of task T
Cell(T) == Deref(T, T.internal_state)

\* the k-th command of T, its latest, is a GetState: next_send is its reply
\* and no command has changed the cell since
JustRead(T, k) == k = Len(T.trace) /\ T.trace[k].t = "GetState"

\* the positions of the SetState commands of T between i and k (exclusive)
SetsBetween(T, i, k) == {m \in (i + 1)..(k - 1) : T.trace[m].t = "SetState"}

\* C24 (as claimed): with a cell built from the facets A and B, after
\* set_state of facet A and then set_state of facet B, get_state(A) returns
\* an object that holds the value set for A and the value set for B; and
\* after a set_state of facet A alone the cell still has its facet B.
C24_FacetWritesDoNotClobber ==
  \A t \in DOMAIN tasks :
    tasks[t].initial_state.t = "ContainerAB" =>
      \A i \in 1..Len(tasks[t].trace) : \A k \in 1..Len(tasks[t].trace) :
        ( /\ i < k
          /\ tasks[t].trace[i].t = "SetState"
          /\ tasks[t].trace[i].state.t = "ContainerA"
          /\ JustRead(tasks[t], k)
          /\ tasks[t].trace[k].state_type = "ContainerA" ) =>
            /\ SetsBetween(tasks[t], i, k) = {} =>
                 /\ Field(Deref(tasks[t], tasks[t].next_send), "value_int") =
                      tasks[t].trace[i].state.value_int
                 /\ Field(Deref(tasks[t], tasks[t].next_send), "value_str") # "missing"
            /\ \A j \in SetsBetween(tasks[t], i, k) :
                 (SetsBetween(tasks[t], i, k) = {j} /\ tasks[t].trace[j].state.t = "ContainerB") =>
                   /\ Field(Deref(tasks[t], tasks[t].next_send), "value_int") =
                        tasks[t].trace[i].state.value_int
                   /\ Field(Deref(tasks[t], tasks[t].next_send), "value_str") =
                        tasks[t].trace[j].state.value_str

--------------------------------------------------------------------------
\* the content of the object main gave when main gave it
Original(T) == CHOOSE c \in InitialStates : c.t = T.initial_state.t

\* the fields of a state object
Facets(o) == DOMAIN o \ {"t"}

\* the positions of the SetState commands of T whose value has field f
WritesOf(T, f) ==
  {i \in 1..Len(T.trace) : T.trace[i].t = "SetState" /\ f \in Facets(T.trace[i].state)}

\* what field f of the cell is to hold after the commands of T
LastWritten(T, f) ==
  IF WritesOf(T, f) = {} THEN Original(T)[f]
  ELSE T.trace[CHOOSE i \in WritesOf(T, f) : \A j \in WritesOf(T, f) : j <= i].state[f]

\* C25: under the merging driver, after any sequence of set_state every field
\* of the cell holds the value of the most recent set_state whose value has
\* that field, or its initial content when there was none; the cell keeps
\* its class and its fields, and the final_state returned is that cell.
C25_MergeKeepsLatestPerFacet ==
  driver = "run_state_fixed" =>
    \A t \in DOMAIN tasks :
      /\ tasks[t].internal_state = TheInitialState
      /\ Facets(Cell(tasks[t])) = Facets(Original(tasks[t]))
      /\ \A f \in Facets(Original(tasks[t])) : Cell(tasks[t])[f] = LastWritten(tasks[t], f)
      /\ tasks[t].pc = "done" => Deref(tasks[t], tasks[t].result.items[2]) = Cell(tasks[t])

\* the composite cell has taken 2 from the second write of facet A and "bye"
\* from the write of facet B that came between the two
C25_Witness ==
  \E t \in DOMAIN tasks :
    /\ driver = "run_state_fixed"
    /\ tasks[t].pc = "done"
    /\ tasks[t].trace = <<SetState(ContainerA(1)), SetState(ContainerB("bye")), SetState(ContainerA(2))>>
    /\ Original(tasks[t]) = ContainerAB("no", 0)
    /\ tasks[t].result.items[2] = TheInitialState
    /\ tasks[t].initial_state = ContainerAB("bye", 2)

\* the SetState at position i of T wrote field f and no SetState between it
\* and position k wrote that field again
LatestWrite(T, f, i, k) ==
  /\ i \in WritesOf(T, f)
  /\ i < k
  /\ \A m \in WritesOf(T, f) : ~(i < m /\ m < k)

\* what get_state has just returned to the program of T
Reply(T) == Deref(T, T.next_send)

\* a get_state answered with the facets of the latest writes, or with the
\* initial state when nothing was written
ReadsWhatWasSet(T) ==
  \A k \in 1..Len(T.trace) :
    JustRead(T, k) =>
      /\ (\A i \in 1..k : T.trace[i].t # "SetState") => Reply(T) = Original(T)
      /\ \A i \in 1..k : \A f \in {"value_int", "value_str"} :
           LatestWrite(T, f, i, k) =>
             /\ f \in Facets(Reply(T))
             /\ Reply(T)[f] = T.trace[i].state[f]

\* the step of task t that answers a GetState leaves the cell as it was
GetLeavesCell(t) ==
  ( /\ Len(tasks'[t].trace) = Len(tasks[t].trace) + 1
    /\ tasks'[t].trace[Len(tasks'[t].trace)].t = "GetState" ) =>
      /\ tasks'[t].internal_state = tasks[t].internal_state
      /\ tasks'[t].initial_state = tasks[t].initial_state

\* C26 (as claimed): under both state drivers a get_state after set_state(v),
\* with no set_state of the same facet in between, returns the fields of v;
\* a get_state before any set_state returns the initial state; and a
\* get_state never changes the cell.
C26_GetReturnsLastSet ==
  /\ [](\A t \in DOMAIN tasks : ReadsWhatWasSet(tasks[t]))
  /\ [][\A t \in DOMAIN tasks : GetLeavesCell(t)]_vars

\* the positions of the SetState commands of T
Sets(T) == {i \in 1..Len(T.trace) : T.trace[i].t = "SetState"}

\* the value of the last set_state of T, or the initial state
LastSet(T) ==
  IF Sets(T) = {} THEN Original(T)
  ELSE T.trace[CHOOSE i \in Sets(T) : \A j \in Sets(T) : j <= i].state

\* C27: under the simple state driver the cell is the value of the last
\* set_state, whole, or the initial state when there was none, and run_state
\* returns the pair of the program's result and that cell.
C27_SetReplacesWholeCell ==
  driver = "run_state" =>
    \A t \in DOMAIN tasks :
      /\ Cell(tasks[t]) = LastSet(tasks[t])
      /\ tasks[t].pc = "done" =>
           /\ tasks[t].result.t = "tuple"
           /\ Len(tasks[t].result.items) = 2
           /\ Deref(tasks[t], tasks[t].result.items[2]) = LastSet(tasks[t])

\* run_state has returned the ContainerB of the second of two set_state, on
\* a cell that began as a ContainerAB
C27_Witness ==
  \E t \in DOMAIN tasks :
    /\ driver = "run_state"
    /\ tasks[t].pc = "done"
    /\ tasks[t].initial_state = ContainerAB("no", 0)
    /\ tasks[t].trace = <<SetState(ContainerA(1)), SetState(ContainerB("hello"))>>
    /\ tasks[t].result.items[2] = ContainerB("hello")

--------------------------------------------------------------------------
IsLog(command) == command.t = "LogMessage"

\* the LogMessage commands among the commands a driver has seen, in order
LogsOf(T) == SelectSeq(T.trace, IsLog)

\* C28: run_collecting returns the pair of the program's result and a list
\* that is exactly the LogMessage commands the program yielded, in the order
\* it yielded them and each once; a Nop adds nothing to the list.
C28_CollectingReturnsTheLogs ==
  \A t \in DOMAIN tasks :
    tasks[t].run = "run_collecting" =>
      /\ tasks[t].log_messages = LogsOf(tasks[t])
      /\ tasks[t].pc = "done" =>
           /\ tasks[t].result.t = "tuple"
           /\ Len(tasks[t].result.items) = 2
           /\ tasks[t].result.items[2] = ListV(LogsOf(tasks[t]))

\* run_collecting has returned two different messages in the order of the
\* program, which also yielded a Nop
C28_Witness ==
  \E t \in DOMAIN tasks :
    /\ tasks[t].run = "run_collecting"
    /\ tasks[t].pc = "done"
    /\ tasks[t].trace = <<Nop, LogMessage("info", "trying to divide"),
                          LogMessage("error", "Can't divide by 0")>>
    /\ tasks[t].result.items[2] =
         ListV(<<LogMessage("info", "trying to divide"), LogMessage("error", "Can't divide by 0")>>)

\* the value the program of T completed with, as its driver returned it
ValueOf(T) == IF T.run = "run_collecting" THEN T.result.items[1] ELSE T.result

\* the lines run_printing prints for the commands T has seen
LinesOf(T) ==
  [i \in 1..Len(LogsOf(T)) |->
     upper(LogsOf(T)[i].severity) \o ": " \o LogsOf(T)[i].message]

\* s is a prefix of r
IsPrefix(s, r) == Len(s) <= Len(r) /\ s = SubSeq(r, 1, Len(s))

\* C29: two of run_printing, run_muted and run_collecting given the same
\* program resume it with the same inputs, as many times, receive the same
\* commands and return the same result value; what differs is what is done
\* with a LogMessage: printed, dropped, or collected.
C29_DriversAgree ==
  /\ \A s \in DOMAIN tasks : \A t \in DOMAIN tasks :
       (tasks[s].gen.p = tasks[t].gen.p /\ tasks[s].pc = "done") =>
         /\ tasks[t].pc # "raised"
         /\ IsPrefix(tasks[t].sent, tasks[s].sent)
         /\ IsPrefix(tasks[t].trace, tasks[s].trace)
         /\ tasks[t].pc = "done" =>
              /\ tasks[t].sent = tasks[s].sent
              /\ tasks[t].trace = tasks[s].trace
              /\ ValueOf(tasks[t]) = ValueOf(tasks[s])
  /\ \A t \in DOMAIN tasks :
       /\ tasks[t].stdout = IF tasks[t].run = "run_printing" THEN LinesOf(tasks[t]) ELSE <<>>
       /\ tasks[t].log_messages = IF tasks[t].run = "run_collecting" THEN LogsOf(tasks[t]) ELSE <<>>

\* the three drivers have returned for one program that logged, was resumed
\* three times and completed with a value
C29_Witness ==
  /\ Len(tasks) >= 3
  /\ \A t \in 1..3 : tasks[t].pc = "done" /\ tasks[t].gen.p = tasks[1].gen.p
  /\ {tasks[t].run : t \in 1..3} = LoggingDrivers
  /\ tasks[1].sent = <<None, None, None>>
  /\ LogsOf(tasks[1]) # <<>>
  /\ ValueOf(tasks[1]) # None
  /\ tasks[3].result.items[1] = tasks[1].result

\* a command as it leaves _MuteLogging
Muted(command) == IF IsLog(command) THEN Nop ELSE command

\* C30: muted(p) yields as many commands as p, in the same order: a Nop
\* where p yields a LogMessage and the command of p everywhere else; it
\* completes with the value of p, so that run_collecting(muted(p)) returns
\* that value with an empty list.
C30_MutedReplacesLogsByNop ==
  \A s \in DOMAIN tasks : \A t \in DOMAIN tasks :
    ( /\ tasks[t].gen.p = muted(tasks[s].gen.p)
      /\ tasks[s].run = "run_collecting"
      /\ tasks[s].pc = "done" ) =>
        /\ Len(tasks[t].trace) <= Len(tasks[s].trace)
        /\ \A i \in 1..Len(tasks[t].trace) : tasks[t].trace[i] = Muted(tasks[s].trace[i])
        /\ tasks[t].pc # "raised"
        /\ tasks[t].pc = "done" =>
             /\ Len(tasks[t].trace) = Len(tasks[s].trace)
             /\ tasks[t].result = TupleV(<<tasks[s].result.items[1], ListV(<<>>)>>)

\* p yielded a Nop of its own and two messages and completed with a value;
\* run_collecting(muted(p)) has returned after three Nop
C30_Witness ==
  \E s \in DOMAIN tasks : \E t \in DOMAIN tasks :
    /\ tasks[t].gen.p = muted(tasks[s].gen.p)
    /\ tasks[s].run = "run_collecting" /\ tasks[s].pc = "done"
    /\ tasks[t].run = "run_collecting" /\ tasks[t].pc = "done"
    /\ tasks[s].trace = <<Nop, LogMessage("info", "trying to divide"),
                          LogMessage("error", "Can't divide by 0")>>
    /\ tasks[t].trace = <<Nop, Nop, Nop>>
    /\ tasks[t].result.items[1] # None
    /\ tasks[t].result.items[2] = ListV(<<>>)

\* a command as it leaves _TransformSeverity(_, from, to)
Transformed(command, from, to) ==
  IF IsLog(command) /\ command.severity = from
    THEN [command EXCEPT !.severity = to]
    ELSE command

\* the program of T is Logging(_TransformSeverity(q, from, to))
IsTransformOf(T, q) ==
  /\ T.gen.p.op = "Logging"
  /\ T.gen.p.ps[1].op = "_TransformSeverity"
  /\ T.gen.p.ps[1].ps[1] = q

\* C31: _TransformSeverity(p, from, to), and errors_as_warning with it,
\* yields as many commands as p in the same order: where p yields a
\* LogMessage of severity from, the same message with severity to, and the
\* command of p everywhere else; it completes with the value of p.
C31_TransformRewritesOneSeverity ==
  \A s \in DOMAIN tasks : \A t \in DOMAIN tasks :
    ( /\ IsTransformOf(tasks[t], tasks[s].gen.p)
      /\ tasks[s].run = "run_collecting"
      /\ tasks[s].pc = "done" ) =>
        LET from == tasks[t].gen.p.ps[1].from_severity
            to   == tasks[t].gen.p.ps[1].to_severity
        IN /\ Len(tasks[t].trace) <= Len(tasks[s].trace)
           /\ \A i \in 1..Len(tasks[t].trace) :
                tasks[t].trace[i] = Transformed(tasks[s].trace[i], from, to)
           /\ tasks[t].pc # "raised"
           /\ tasks[t].pc = "done" =>
                /\ Len(tasks[t].trace) = Len(tasks[s].trace)
                /\ ValueOf(tasks[t]) = ValueOf(tasks[s])

\* p yielded a Nop, an info and an error and completed with a value;
\* run_collecting(p.errors_as_warning()) has returned the info as it was and
\* the error as a warning
C31_Witness ==
  \E s \in DOMAIN tasks : \E t \in DOMAIN tasks :
    /\ tasks[t].gen.p = errors_as_warning(tasks[s].gen.p)
    /\ tasks[s].run = "run_collecting" /\ tasks[s].pc = "done"
    /\ tasks[t].run = "run_collecting" /\ tasks[t].pc = "done"
    /\ tasks[s].trace = <<Nop, LogMessage("info", "trying to divide"),
                          LogMessage("error", "Can't divide by 0")>>
    /\ tasks[t].result.items[1] # None
    /\ tasks[t].result.items[2] =
         ListV(<<LogMessage("info", "trying to divide"), LogMessage("warning", "Can't divide by 0")>>)

\* the program of the scenario: it logs info "start" and halts with "boom",
\* inside recover_with(_, lambda _: -1)
StartThenBoom == recover_with(log_then_halt(<<"start">>, "boom"), _recover_minus_one)

\* C32: run_collecting of a program that logs info "start" and then halts
\* with "boom", wrapped in recover_with(_ -> -1), returns -1 with the list
\* of the one message logged before the halt: it never raises, never sees
\* the StopFromError, and has returned at its second send.
C32_LogThenRecoveredHalt ==
  \A t \in DOMAIN tasks :
    (tasks[t].run = "run_collecting" /\ tasks[t].gen.p = StartThenBoom) =>
      /\ tasks[t].pc # "raised"
      /\ \A i \in 1..Len(tasks[t].trace) : ~IsStopFromError(tasks[t].trace[i])
      /\ Len(tasks[t].sent) <= 2
      /\ Len(tasks[t].sent) = 2 => tasks[t].pc = "done"
      /\ tasks[t].pc = "done" =>
           tasks[t].result = TupleV(<<IntV(-1), ListV(<<LogMessage("info", "start")>>)>>)

\* run_collecting has returned for the program of the scenario
C32_Witness ==
  \E t \in DOMAIN tasks :
    /\ tasks[t].run = "run_collecting"
    /\ tasks[t].gen.p = StartThenBoom
    /\ tasks[t].pc = "done"
    /\ tasks[t].trace = <<LogMessage("info", "start")>>
    /\ tasks[t].result.items[1] = IntV(-1)

\* the branches of the gather of task t whose drive has not ended
Unfinished(t) ==
  {c \in 1..Len(tasks[t].kids) : tasks[tasks[t].kids[c]].pc \notin {"done", "raised"}}

\* a branch of the gather of task t ended with an exception
BranchRaised(t) == \E c \in 1..Len(tasks[t].kids) : tasks[tasks[t].kids[c]].pc = "raised"

\* what the branches of task t returned, read from their programs' own ends
EndsOf(t) == [c \in 1..Len(tasks[t].kids) |-> tasks[tasks[t].kids[c]].result]

\* C33: the gather runs its branches to completion and reports afterwards.
\* Under the synchronous and the asynchronous drivers the parent is resumed
\* after its Gather, or its drive returns, only when every branch has
\* returned, and it is then given the list of the results or the error of a
\* halted branch; while a branch that has halted has siblings that have not
\* ended, the join is still awaited and the next such sibling (every such
\* sibling under the asynchronous driver) can take its step.
C33_GatherRunsToCompletion ==
  \A t \in DOMAIN tasks :
    tasks[t].kids # <<>> =>
      /\ (Len(tasks[t].sent) > 1 \/ tasks[t].pc = "done") =>
           /\ BranchesReturned(t)
           /\ Len(tasks[t].sent) > 1 =>
                tasks[t].sent[2] =
                  IF HaltedBranches(t) = {} THEN ListV(EndsOf(t))
                  ELSE ExitInPlace(BranchResult(t, FirstHalted(t)).error)
      /\ (HaltedBranches(t) # {} /\ Unfinished(t) # {} /\ ~BranchRaised(t)) =>
           /\ tasks[t].pc = "gather"
           /\ ~ENABLED gather_done(t)
           /\ \A c \in Unfinished(t) :
                ( /\ tasks[tasks[t].kids[c]].pc = "run"
                  /\ driver = "run_io_async" \/ \A b \in Unfinished(t) : c <= b ) =>
                    ENABLED run_io(tasks[t].kids[c])

\* under the dependency driver the first branch halted, the second branch
\* was driven to its end after that, and only then was the parent resumed
\* with the error
C33_Witness ==
  \E t \in DOMAIN tasks : \E e \in Errors :
    /\ driver = "run_io_deps"
    /\ Len(tasks[t].kids) = 2
    /\ BranchResult(t, 1) = StopFromError(e)
    /\ tasks[tasks[t].kids[2]].pc = "done"
    /\ Len(tasks[tasks[t].kids[2]].sent) = 2
    /\ BranchResult(t, 2) = Instance(tasks[t].dep_resolver, "Logger")
    /\ tasks[tasks[t].kids[1]].finished_at < tasks[tasks[t].kids[2]].finished_at
    /\ Len(tasks[t].sent) > 1
    /\ tasks[t].sent[2] = ExitInPlace(e)

\* the generator a fresh generator g has become after the resumes of sent
RECURSIVE GenAfter(_, _)
GenAfter(g, sent) ==
  IF sent = <<>> THEN g ELSE GenAfter(gen_send(g, Head(sent)).g, Tail(sent))

\* the resume inputs and the outcomes of the drives of main, one after the
\* other
RECURSIVE AllSent(_)
AllSent(n) == IF n = 0 THEN <<>> ELSE AllSent(n - 1) \o tasks[n].sent

RECURSIVE AllOutcomes(_)
AllOutcomes(n) == IF n = 0 THEN <<>> ELSE AllOutcomes(n - 1) \o Outcomes(tasks[n])

\* the _RecoverWithEither object main drives, inside its Either if it has one
Wrapper == IF Program(1).op = "Either" THEN tasks[1].gen.sub[1] ELSE tasks[1].gen

\* the positions at which p alone ends (returns, raises or halts) when it is
\* resumed with the values of sent
EndsAt(p, sent) ==
  LET o == Replay(NewGen(p), sent)
  IN {i \in 1..Len(o) : o[i].k # "yield" \/ IsStopFromError(o[i].v)}

\* C34: recover_with_either(p, g) calls g when p yields StopFromError, then
\* only, and once.  As long as p has not halted there is no recovery program;
\* if p completes with v the drive returns v and there is none either.  From
\* the resume in which p halts with e on, there is the one recovery program
\* g(e): p stays where it halted (or closed there), and what the drives see
\* is what g(e) alone produces, resumed first with None and then with every
\* later resume input of the wrapper.
C34_RecoveryIsInvokedOnceOnHalt ==
  (driver = "run_either" /\ Combinator(1).op = "recover_with_either") =>
    LET n    == Len(tasks)
        sent == AllSent(n)
        dec  == Combinator(1).ps[1]
        o    == Replay(NewGen(dec), sent)
        ends == EndsAt(dec, sent)
        h    == CHOOSE i \in ends : \A j \in ends : i <= j
    IN /\ Wrapper.p = Combinator(1)
       /\ Len(Wrapper.sub) <= 2
       /\ ends = {} => Len(Wrapper.sub) = 1
       /\ (ends # {} /\ o[h].k = "return") =>
            /\ Len(Wrapper.sub) = 1
            /\ AllOutcomes(n)[h] = o[h]
            /\ tasks[1].result = o[h].v
       /\ (ends # {} /\ o[h].k = "yield") =>
            /\ Len(Wrapper.sub) = 2
            /\ Wrapper.sub[2].p = Combinator(1).g[o[h].v.error]
            /\ Wrapper.sub[1] \in
                 {GenAfter(NewGen(dec), SubSeq(sent, 1, h)),
                  gen_close(GenAfter(NewGen(dec), SubSeq(sent, 1, h)))}
            /\ SubSeq(AllOutcomes(n), h, Len(sent)) =
                 Replay(NewGen(Combinator(1).g[o[h].v.error]),
                        <<None>> \o SubSeq(sent, h + 1, Len(sent)))

\* p halted with "e1" and its recovery program halted with "e2" in the first
\* drive; the second drive has resumed the wrapper, and the resume went to
\* the recovery program, which raised, while p stays closed at its halt
C34_Witness ==
  /\ driver = "run_either"
  /\ Program(1) = recover_with_either(halt_with_error("e1"), _recover_halting_with_other)
  /\ Len(tasks) = 2
  /\ tasks[1].result = StopFromError("e2")
  /\ tasks[2].pc = "raised"
  /\ Len(Wrapper.sub) = 2
  /\ Wrapper.sub[1].st = "closed"
  /\ Wrapper.sub[2].st = "done"

\* branch c of the gather of task t is recover_with(q, f), and q, resumed
\* with what the branch was resumed with, has halted with e
RecoveredBranch(t, c, e) ==
  /\ Program(tasks[t].kids[c]).op = "recover_with"
  /\ HaltsOf(Program(tasks[t].kids[c]).ps[1], tasks[tasks[t].kids[c]].sent) = {e}

\* C35: a branch of a gather that halts inside its own recover_with is a
\* branch that completed: its drive returns f(e), it does not count as a
\* halted branch, and when no branch of the gather has halted outside such
\* a wrapper the parent is resumed with the list of results, f(e) at the
\* index of the branch, and never with ExitInPlace.
C35_RecoveredBranchDoesNotFailGather ==
  \A t \in DOMAIN tasks : \A c \in 1..Len(tasks[t].kids) : \A e \in Errors :
    RecoveredBranch(t, c, e) =>
      /\ tasks[tasks[t].kids[c]].pc = "done"
      /\ BranchResult(t, c) = Program(tasks[t].kids[c]).f[e]
      /\ \A i \in 1..Len(tasks[tasks[t].kids[c]].trace) :
           ~IsStopFromError(tasks[tasks[t].kids[c]].trace[i])
      /\ ( /\ Len(tasks[t].sent) > 1
           /\ \A b \in 1..Len(tasks[t].kids) : ~IsStopFromError(tasks[tasks[t].kids[b]].result) ) =>
             /\ tasks[t].sent[2].t = "list"
             /\ Len(tasks[t].sent[2].items) = Len(tasks[t].kids)
             /\ tasks[t].sent[2].items[c] = Program(tasks[t].kids[c]).f[e]

\* under the asynchronous driver the second branch halted with "e2" inside
\* its recover_with while the first slept; the parent has been resumed with
\* the list that holds -2 at index 2
C35_Witness ==
  \E t \in DOMAIN tasks : \E v \in Vals :
    /\ driver = "run_io_async"
    /\ Len(tasks[t].kids) = 2
    /\ Program(tasks[t].kids[1]) = sequence(<<sleep, pure(v)>>)
    /\ RecoveredBranch(t, 2, "e2")
    /\ tasks[tasks[t].kids[2]].finished_at < tasks[tasks[t].kids[1]].finished_at
    /\ Len(tasks[t].sent) = 2
    /\ tasks[t].sent[2] = ListV(<<TupleV(<<None, v>>), IntV(-2)>>)

\* the commands a fresh generator g yields when it is resumed with None
\* until it ends
RECURSIVE Emits(_)
Emits(g) ==
  LET r == gen_send(g, None)
  IN IF r.k = "yield" THEN <<r.v>> \o Emits(r.g) ELSE <<>>

\* what statement a of an enclosing program is to show the driver: its own
\* message as written; for a delegation to q.muted(), a Nop for each
\* LogMessage of q; for a delegation to a _TransformSeverity of q, the
\* commands of q with the one severity rewritten
ShownBy(a) ==
  CASE a.op = "Logging" /\ a.ps[1].op = "log" ->
         <<LogMessage(a.ps[1].severity, a.ps[1].message)>>
    [] a.op = "Logging" /\ a.ps[1].op = "_MuteLogging" ->
         LET q == Emits(NewGen(a.ps[1].ps[1]))
         IN [i \in 1..Len(q) |-> Muted(q[i])]
    [] a.op = "Logging" /\ a.ps[1].op = "_TransformSeverity" ->
         LET q == Emits(NewGen(a.ps[1].ps[1]))
         IN [i \in 1..Len(q) |-> Transformed(q[i], a.ps[1].from_severity, a.ps[1].to_severity)]
    [] OTHER -> Emits(NewGen(a))

RECURSIVE ShownByAll(_)
ShownByAll(ps) == IF ps = <<>> THEN <<>> ELSE ShownBy(Head(ps)) \o ShownByAll(Tail(ps))

\* the program of T is a @logable sequence of statements
IsEnclosing(T) == T.gen.p.op = "Logging" /\ T.gen.p.ps[1].op = "sequence"

\* C36: muting or transforming a sub-program an enclosing program delegates
\* to changes the LogMessage commands of that sub-program only: the driver
\* receives, statement by statement and in order, the messages of the
\* enclosing program as it emitted them and, for each delegation, the
\* commands of the sub-program muted or transformed.
C36_CombinatorIsLocalToSubProgram ==
  \A t \in DOMAIN tasks :
    IsEnclosing(tasks[t]) =>
      /\ IsPrefix(tasks[t].trace, ShownByAll(tasks[t].gen.p.ps[1].ps))
      /\ tasks[t].pc # "raised"
      /\ tasks[t].pc = "done" => tasks[t].trace = ShownByAll(tasks[t].gen.p.ps[1].ps)

\* run_collecting(prog1()) has returned the four messages main prints: the
\* two of prog1 itself around those of divide, the error as a warning, and
\* nothing of the two muted add
C36_Witness ==
  \E t \in DOMAIN tasks : \E v \in Vals :
    /\ tasks[t].gen.p = prog1(v)
    /\ tasks[t].run = "run_collecting"
    /\ tasks[t].pc = "done"
    /\ tasks[t].trace[2] = Nop /\ tasks[t].trace[3] = Nop
    /\ tasks[t].result.items[2] =
         ListV(<<LogMessage("info", "Started prog1"), LogMessage("info", "trying to divide"),
                 LogMessage("warning", "Can't divide by 0"), LogMessage("info", "Finished prog1")>>)

\* the loop of task t has resumed its program at least once
Started(t) == tasks[t].sent # <<>>

\* the drive of main has returned a value or a StopFromError
MainReturned ==
  /\ tasks[1].pc = "done"
  /\ tasks[1].result.t \in {"int", "list", "tuple", "instance", "None", "StopFromError"}

\* the drive of main has raised after a request for a key the resolver has not
MainFailedOnDependency ==
  /\ tasks[1].pc = "raised"
  /\ driver = "run_io_deps"
  /\ AskedUnresolvable(1)

\* no loop has a step to take
Quiescent == EnabledSteps = {}

\* the number of nodes of program p: each yields at most once
RECURSIVE Size(_)
RECURSIVE SizeAll(_)
RECURSIVE SizeOfRecoveries(_, _)
Size(p) ==
  CASE p.op \in {"middleman", "sequence", "recover_with", "Either"} -> 1 + SizeAll(p.ps)
    [] p.op = "recover_with_either" ->
         1 + SizeAll(p.ps) + SizeOfRecoveries(p.g, DOMAIN p.g)
    [] p.op \in {"gather", "join"} -> 2 + SizeAll(p.subs)
    [] OTHER -> 1

SizeAll(ps) == IF ps = <<>> THEN 0 ELSE Size(Head(ps)) + SizeAll(Tail(ps))

SizeOfRecoveries(g, E) ==
  IF E = {} THEN 0
  ELSE LET e == CHOOSE x \in E : TRUE
       IN Size(g[e]) + SizeOfRecoveries(g, E \ {e})

\* what the loops have done so far: every step of every loop adds to it
RECURSIVE Progress(_, _)
Progress(ts, n) ==
  IF n = 0 THEN 0
  ELSE Progress(ts, n - 1) + 2 * Len(ts[n].sent)
         + (IF ts[n].pc \in {"sleeping", "gather"} THEN 0 ELSE 1)

\* C37 (as claimed): every drive ends with a value or a StopFromError, for
\* every program of finitely many suspensions, gathers nested in gathers and
\* recovery wrappers included: when no loop has a step left to take the
\* drive of main has returned.
C37_EveryDriveReturns == Quiescent => MainReturned

\* the loops are bounded by the program, and where they stop they have ended
DrivesEnd ==
  /\ Len(tasks) <= Size(Program(1))
  /\ \A t \in DOMAIN tasks : Len(tasks[t].sent) <= Size(Program(t)) + 1
  /\ Quiescent =>
       /\ MainReturned \/ MainFailedOnDependency
       /\ \A t \in DOMAIN tasks : Started(t) => Over(t)

\* C37 (amended): every drive loop ends.  Every step of a loop adds to what
\* the loops have done; no loop resumes its program more often than the
\* program has suspension points, plus once, and there are no more loops
\* than the program of main has nodes; when no loop has a step left to
\* take, the drive of main has returned a value or a StopFromError, or,
\* under the dependency driver, has raised because a key that was asked for
\* cannot be resolved, and every loop that was started has ended.
C37_EveryDriveEnds ==
  /\ []DrivesEnd
  /\ [][Progress(tasks', Len(tasks')) > Progress(tasks, Len(tasks))]_vars

\* under the asynchronous driver a gather inside recover_with, itself a
\* branch of a gather, had a branch that halted after a sleep: the inner
\* drive returned the recovery value and the drive of main returned the list
C37_Witness ==
  /\ driver = "run_io_async"
  /\ Program(1).op = "gather"
  /\ tasks[1].pc = "done"
  /\ tasks[1].result = ListV(<<IntV(-1), IntV(1)>>)
  /\ Program(tasks[1].kids[1]).op = "recover_with"
  /\ \E t \in DOMAIN tasks :
       /\ tasks[t].parent = tasks[1].kids[1]
       /\ Program(t) = sequence(<<sleep, halt_with_error("e2")>>)
       /\ tasks[t].result = StopFromError("e2")

--------------------------------------------------------------------------
\* the positions of the GetState commands of T that have been answered
Answered(T) == {k \in 1..Len(T.trace) : T.trace[k].t = "GetState" /\ k < Len(T.sent)}

\* C38: under the merging driver the final_state returned is the very object
\* given as initial_state, and every value a get_state has returned is that
\* object too: read now, each of its fields holds what the latest set_state
\* of that field has written, the ones executed after the read included.
C38_CellIsMutatedInPlace ==
  driver = "run_state_fixed" =>
    \A t \in DOMAIN tasks :
      /\ tasks[t].pc = "done" => tasks[t].result.items[2] = TheInitialState
      /\ \A k \in Answered(tasks[t]) :
           /\ tasks[t].sent[k + 1] = TheInitialState
           /\ \A f \in Facets(Original(tasks[t])) :
                Field(Deref(tasks[t], tasks[t].sent[k + 1]), f) = LastWritten(tasks[t], f)

\* the value get_state returned before set_state(ContainerA(1)) ran is the
\* object run_state returns, and it now holds 1
C38_Witness ==
  \E t \in DOMAIN tasks :
    /\ driver = "run_state_fixed"
    /\ tasks[t].pc = "done"
    /\ tasks[t].trace = <<GetState("ContainerA"), SetState(ContainerA(1))>>
    /\ Original(tasks[t]) = ContainerAB("no", 0)
    /\ tasks[t].sent[2] = tasks[t].result.items[2]
    /\ Deref(tasks[t], tasks[t].sent[2]) = ContainerAB("no", 1)

--------------------------------------------------------------------------
\* the values of the set_state operations of T, in order
ValuesSet(T) ==
  LET IsSet(c) == c.t = "SetState"
      cs == SelectSeq(T.trace, IsSet)
  IN [i \in 1..Len(cs) |-> cs[i].state]

\* the content of the cell after run_state has handled set_state of each of
\* vals, in order, on the object main gave to T
RECURSIVE CellAfter(_, _)
CellAfter(T, vals) ==
  IF vals = <<>> THEN Cell(T)
  ELSE CellAfter(SetState_updating(T, Head(vals)), Tail(vals))

\* the run of T before any set_state
Fresh(T) == StateTask(T.gen.p, Original(T))

\* vals with the values at i and i + 1 in the other order
Swapped(vals, i) == [vals EXCEPT ![i] = vals[i + 1], ![i + 1] = vals[i]]

\* vals without the value at i
Without(vals, i) == SubSeq(vals, 1, i - 1) \o SubSeq(vals, i + 1, Len(vals))

\* C39: under the merging driver with a composite cell, two consecutive
\* set_state of different facets leave the cell they would leave in the
\* other order, and two consecutive set_state of the same value leave the
\* cell that one of them would leave.
C39_SetStateCommutesAndIsIdempotent ==
  driver = "run_state_fixed" =>
    \A t \in DOMAIN tasks :
      Original(tasks[t]).t = "ContainerAB" =>
        LET vals == ValuesSet(tasks[t])
        IN \A i \in 1..(Len(vals) - 1) :
             /\ Facets(vals[i]) \cap Facets(vals[i + 1]) = {} =>
                  Cell(tasks[t]) = CellAfter(Fresh(tasks[t]), Swapped(vals, i))
             /\ vals[i] = vals[i + 1] =>
                  Cell(tasks[t]) = CellAfter(Fresh(tasks[t]), Without(vals, i))

\* ContainerA(2) was set twice and ContainerB("bye") after it: the cell is
\* the one that ContainerB("bye") and then a single ContainerA(2) leave
C39_Witness ==
  \E t \in DOMAIN tasks :
    /\ driver = "run_state_fixed"
    /\ Original(tasks[t]) = ContainerAB("no", 0)
    /\ ValuesSet(tasks[t]) = <<ContainerA(2), ContainerA(2), ContainerB("bye")>>
    /\ Cell(tasks[t]) = ContainerAB("bye", 2)
    /\ Cell(tasks[t]) = CellAfter(Fresh(tasks[t]), <<ContainerB("bye"), ContainerA(2)>>)

--------------------------------------------------------------------------
\* the generator g and every iterator below it
RECURSIVE Frames(_)
Frames(g) == {g} \cup UNION {Frames(g.sub[i]) : i \in DOMAIN g.sub}

\* some generator of g can still be resumed
Suspended(g) == \E f \in Frames(g) : f.st \in {"new", "yield", "yield_from"}

\* the generator at the end of the chain of delegations of g
RECURSIVE Innermost(_)
Innermost(g) == IF g.sub = <<>> THEN g ELSE Innermost(Delegate(g))

\* the _RecoverWithEither objects of task t that have a recovery program
Switched(t) ==
  {w \in Frames(tasks[t].gen) : w.p.op = "recover_with_either" /\ Len(w.sub) = 2}

\* C40: once _RecoverWithEither has a recovery program, close() and throw()
\* still go to the original program and not to the recovery program.  When
\* the drive has ended on a StopFromError of the recovery program and has
\* closed the wrapper, no generator of the original program can be resumed
\* any more, and the recovery program is still suspended at the yield of
\* that StopFromError; a throw() ends the original program with the
\* exception and leaves the recovery program as it is.
C40_CloseAndThrowGoToOriginal ==
  driver = "run_either" =>
    \A t \in DOMAIN tasks : \A w \in Switched(t) :
      /\ (tasks[t].pc = "done" /\ IsStopFromError(tasks[t].result)) =>
           /\ ~Suspended(w.sub[1])
           /\ Innermost(w.sub[2]).p = halt_with_error(tasks[t].result.error)
           /\ Innermost(w.sub[2]).st = "yield"
           /\ \A f \in Frames(w.sub[2]) : f.st # "closed"
      /\ LET r == gen_throw(w, "KeyboardInterrupt")
         IN /\ r.k = "raise"
            /\ r.v = Exc("KeyboardInterrupt")
            /\ r.g.sub[2] = w.sub[2]
            /\ ~Suspended(r.g.sub[1])

\* the original program halted with "e2" below a middleman, its recovery
\* program halted with "e2" again, and run_either closed the wrapper: the
\* original program and its delegate are closed, the recovery program is
\* not
C40_Witness ==
  \E t \in DOMAIN tasks : \E w \in Switched(t) :
    /\ driver = "run_either"
    /\ tasks[t].pc = "done"
    /\ tasks[t].result = StopFromError("e2")
    /\ w.p = recover_with_either(middleman(halt_with_error("e2")), _recover_from_internal_error_only)
    /\ w.sub[1].st = "closed"
    /\ Delegate(w.sub[1]).st = "closed"
    /\ w.sub[2].st = "yield_from"
    /\ Delegate(w.sub[2]).st = "yield"

====
